---- MODULE Spec2Model ----
(***************************************************************************)
(* Streaming segment filters of CartographyStuff:                          *)
(*   LakesParser    (ParseSHEDSLake.py)  - lake polygons and their islands *)
(*   SHEDSrivParser (ParseSHEDSriv.py)   - river network segments          *)
(*                                                                         *)
(* A text is a tuple of one-character strings.  A line of a GMT file is a  *)
(* record [mark, flds]: mark is the text in front of the first field (the  *)
(* four-character marker "# @D" of a comment line, ">" of a boundary line, *)
(* empty for a coordinate line) and flds are the fields that follow it,    *)
(* separated by "|" on a comment line and by blanks on any other line.     *)
(* The terminating newline is implicit.  Degrees and areas are integers.   *)
(***************************************************************************)
EXTENDS Integers, Sequences, FiniteSets, TLC

\* An optional value is the empty set (Python's None) or a singleton.
None == {}
Some(v) == {v}
Val(o) == CHOOSE v \in o : TRUE

(***************************************************************************)
(* Characters and texts (the str methods the parsers use)                  *)
(***************************************************************************)
DigitChars == {"0", "1", "2", "3", "4", "5", "6", "7", "8", "9"}

\* str.isdigit() on one character
IsDigitChar(c) == c \in DigitChars

DigitValue(c) ==
    CASE c = "0" -> 0 [] c = "1" -> 1 [] c = "2" -> 2 [] c = "3" -> 3
      [] c = "4" -> 4 [] c = "5" -> 5 [] c = "6" -> 6 [] c = "7" -> 7
      [] c = "8" -> 8 [] c = "9" -> 9

\* str.lower() on one character (the letters that occur in the model)
LowerChar(c) ==
    CASE c = "A" -> "a" [] c = "C" -> "c" [] c = "E" -> "e" [] c = "I" -> "i"
      [] c = "N" -> "n" [] c = "R" -> "r" [] c = "U" -> "u" [] c = "S" -> "s"
      [] OTHER -> c

\* str.lower()
Lower(t) == [i \in 1..Len(t) |-> LowerChar(t[i])]

\* characters removed by str.strip('"\' \n')
StripChars == {"\"", "'", " ", "\n"}

RECURSIVE LStrip(_)
LStrip(t) == IF t # <<>> /\ t[1] \in StripChars THEN LStrip(Tail(t)) ELSE t

RECURSIVE RStrip(_)
RStrip(t) ==
    IF t # <<>> /\ t[Len(t)] \in StripChars
    THEN RStrip(SubSeq(t, 1, Len(t) - 1)) ELSE t

\* str.strip('"\' \n')
Strip(t) == RStrip(LStrip(t))

\* needle in haystack (contiguous substring test of the in operator)
Contains(hay, needle) ==
    \E i \in 0..(Len(hay) - Len(needle)) :
        SubSeq(hay, i + 1, i + Len(needle)) = needle

\* str.isdigit(): non-empty and only digits
AllDigits(t) == t # <<>> /\ \A i \in 1..Len(t) : IsDigitChar(t[i])

RECURSIVE DigitsValue(_)
DigitsValue(t) ==
    IF t = <<>> THEN 0
    ELSE 10 * DigitsValue(SubSeq(t, 1, Len(t) - 1)) + DigitValue(t[Len(t)])

\* int(text) / float(text) on the number texts of the model: blanks around
\* the number are ignored, an optional sign, then digits.  ok = FALSE is
\* the ValueError.
ParseNumber(raw) ==
    LET t == RStrip(LStrip(raw))
        neg == t # <<>> /\ t[1] = "-"
        pos == t # <<>> /\ t[1] = "+"
        d == IF neg \/ pos THEN Tail(t) ELSE t
    IN IF AllDigits(d)
       THEN [ok |-> TRUE, v |-> IF neg THEN 0 - DigitsValue(d) ELSE DigitsValue(d)]
       ELSE [ok |-> FALSE, v |-> 0]

(***************************************************************************)
(* Lines                                                                   *)
(***************************************************************************)
MkLine(mark, flds) == [mark |-> mark, flds |-> flds]

\* the first characters of the line's text, a blank standing for any
\* white space that follows (separator or newline)
LeadChars(line) ==
    line.mark \o (IF line.flds = <<>> THEN <<>> ELSE line.flds[1]) \o <<" ", " ">>

\* line[i] for i = 0, 1
CharAt(line, i) == LeadChars(line)[i + 1]

\* line.isspace()
IsSpace(line) ==
    /\ line.flds = <<>>
    /\ \A i \in 1..Len(line.mark) : line.mark[i] = " "

\* line.startswith(prefix) for a prefix no longer than the mark
StartsWith(line, prefix) ==
    /\ Len(line.mark) >= Len(prefix)
    /\ SubSeq(line.mark, 1, Len(prefix)) = prefix

MarkD == <<"#", " ", "@", "D">>
MarkH == <<"#", " ", "@", "H">>
MarkP == <<"#", " ", "@", "P">>

\* the line written by OutFile.write(">\n")
SimpleSegmentHeader == MkLine(<<">">>, <<>>)

(***************************************************************************)
(* LakesParser: class constants                                            *)
(***************************************************************************)
HEADER_ORDER ==
    << "Hylak_id", "Lake_name", "Country", "Continent", "Poly_src",
       "Lake_type", "Grand_id", "Lake_area", "Shore_len", "Shore_dev",
       "Vol_total", "Vol_res", "Vol_src", "Depth_avg", "Dis_avg",
       "Res_time", "Elevation", "Slope_100", "Wshd_area", "Pour_long",
       "Pour_lat" >>

HEADER_TYPES ==
    << "integer", "string", "string", "string", "string",
       "integer", "integer", "double", "double", "double",
       "double", "double", "integer", "double", "double",
       "double", "integer", "double", "double", "double",
       "double" >>

\* ALLOWED_INPUTS: the inputs that need a header field, in dictionary order,
\* each with the header field it needs (the file-list inputs BoundsFile,
\* LakeNameFile and CountryNameFile are unimplemented stubs and stay None)
NEEDED_INFO ==
    << <<"SimpleBounds", "Pour_long">>, <<"AreaMin", "Lake_area">>,
       <<"AreaMax", "Lake_area">>, <<"LakeName", "Lake_name">>,
       <<"CountryName", "Country">> >>

NUMERIC_TESTER_DICT ==
    [AreaMin |-> "LakeMatchesAreaMin", AreaMax |-> "LakeMatchesAreaMax"]

STRING_TESTER_DICT ==
    [LakeName |-> "LakeMatchesName", CountryName |-> "LakeMatchesCountry"]

\* list.index(x), counted from 0 as in the source
IndexOf(seq, x) == (CHOOSE i \in 1..Len(seq) : seq[i] = x /\ \A j \in 1..(i - 1) : seq[j] # x) - 1

\* sorted(set(...)) of a set of integers
RECURSIVE SortedSeq(_)
SortedSeq(S) ==
    IF S = {} THEN <<>>
    ELSE LET m == CHOOSE x \in S : \A y \in S : x <= y
         IN <<m>> \o SortedSeq(S \ {m})

\* the elements of seq that satisfy Keep, in order
RECURSIVE SelectIn(_, _)
SelectIn(seq, S) ==
    IF seq = <<>> THEN <<>>
    ELSE (IF Head(seq) \in S THEN <<Head(seq)>> ELSE <<>>) \o SelectIn(Tail(seq), S)

(***************************************************************************)
(* Bounds validator                                                        *)
(***************************************************************************)
LatLimit == 90
LonLimit == 180

\* mutant: the longitude limits -180 and 180 themselves are refused
BoundsDatelineCheckOpen(Bounds) ==
    LET W == Bounds[1]
        E == Bounds[2]
        S == Bounds[3]
        N == Bounds[4]
        Raise(d) == [ok |-> FALSE, Directions |-> d, BoundsIncDateline |-> FALSE]
    IN IF ~(S < N) THEN Raise("SN")
       ELSE IF ~(S >= -LatLimit /\ S <= LatLimit) THEN Raise("S")
       ELSE IF ~(N >= -LatLimit /\ N <= LatLimit) THEN Raise("N")
       ELSE IF ~(W # E) THEN Raise("WE")
       ELSE IF ~(W > -LonLimit /\ W < LonLimit /\ W # E) THEN Raise("W")
       ELSE IF ~(E > -LonLimit /\ E < LonLimit /\ W # E) THEN Raise("E")
       ELSE [ok |-> TRUE, Directions |-> "", BoundsIncDateline |-> ~(W < E)]

\* LakesParser.BoundsDatelineCheck on Bounds = <<W, E, S, N>>: ok with the
\* dateline flag it returns, or the Directions of the
\* BoundsInconsistentError it raises
BoundsDatelineCheck(Bounds) ==
    LET W == Bounds[1]
        E == Bounds[2]
        S == Bounds[3]
        N == Bounds[4]
        Raise(d) == [ok |-> FALSE, Directions |-> d, BoundsIncDateline |-> FALSE]
        NoError == ""
    IN IF ~(S < N) THEN Raise("SN")
       ELSE IF ~(S >= -LatLimit /\ S <= LatLimit) THEN Raise("S")
       ELSE IF ~(N >= -LatLimit /\ N <= LatLimit) THEN Raise("N")
       ELSE IF ~(W # E) THEN Raise("WE")
       ELSE IF ~(W >= -LonLimit /\ W <= LonLimit /\ W # E) THEN Raise("W")
       ELSE IF ~(E >= -LonLimit /\ E <= LonLimit /\ W # E) THEN Raise("E")
       ELSE [ok |-> TRUE, Directions |-> NoError, BoundsIncDateline |-> ~(W < E)]

(***************************************************************************)
(* LakesParser.__init__                                                    *)
(***************************************************************************)
\* mutant: a range of one value, AreaMax = AreaMin, is refused as well
AreaRangeInconsistentOrEqual(args) ==
    /\ args.AreaMin # None /\ args.AreaMax # None
    /\ Val(args.AreaMax) <= Val(args.AreaMin)

\* "if (AreaMin is not None) and (AreaMax is not None): if AreaMax < AreaMin"
AreaRangeInconsistent(args) ==
    /\ args.AreaMin # None /\ args.AreaMax # None
    /\ Val(args.AreaMax) < Val(args.AreaMin)

\* args: [SimpleBounds, AreaMin, AreaMax, LakeName, CountryName, SkipIslands,
\* RunLoud, RunSilent], None for an input that is not given.  ok = FALSE is an exception raised
\* by the constructor (err names it).  SimpleBounds, a list [W, E, S, N] to
\* which the constructor appends the dateline flag, is kept as a record; a
\* X_SearchIndex attribute that is never set is None.
LakesParserInit(args) ==
    LET given == [n \in {"SimpleBounds", "AreaMin", "AreaMax", "LakeName", "CountryName"}
                    |-> args[n] # None]
        check == IF given["SimpleBounds"] THEN BoundsDatelineCheck(Val(args.SimpleBounds))
                 ELSE [ok |-> TRUE, Directions |-> "", BoundsIncDateline |-> FALSE]
        needed == {i \in 1..Len(NEEDED_INFO) : given[NEEDED_INFO[i][1]]}
        Working == {IndexOf(HEADER_ORDER, NEEDED_INFO[i][2]) : i \in needed}
                     \cup {IndexOf(HEADER_ORDER, NEEDED_INFO[i][2]) + 1 :
                             i \in {k \in needed : NEEDED_INFO[k][2] = "Pour_long"}}
        HeaderElementsOfInterest == SortedSeq(Working)
        HeaderListSubset ==
            [k \in 1..Len(HeaderElementsOfInterest) |-> HEADER_ORDER[HeaderElementsOfInterest[k] + 1]]
        SearchIndex(name) ==
            IF \E k \in 1..Len(HeaderListSubset) : HeaderListSubset[k] = name
            THEN Some(IndexOf(HeaderListSubset, name)) ELSE None
        NumericTestersToRun ==
            [k \in 1..Len(SelectIn(<<"AreaMin", "AreaMax">>, {n \in {"AreaMin", "AreaMax"} : given[n]}))
               |-> NUMERIC_TESTER_DICT[SelectIn(<<"AreaMin", "AreaMax">>,
                                                {n \in {"AreaMin", "AreaMax"} : given[n]})[k]]]
        StringTestersToRun ==
            [k \in 1..Len(SelectIn(<<"LakeName", "CountryName">>, {n \in {"LakeName", "CountryName"} : given[n]}))
               |-> STRING_TESTER_DICT[SelectIn(<<"LakeName", "CountryName">>,
                                               {n \in {"LakeName", "CountryName"} : given[n]})[k]]]
    IN IF AreaRangeInconsistent(args)
       THEN [ok |-> FALSE, err |-> "InitInputError"]
       ELSE IF ~check.ok
       THEN [ok |-> FALSE, err |-> "BoundsInconsistentError"]
       ELSE [ok |-> TRUE, err |-> "",
             SimpleBounds |-> IF given["SimpleBounds"]
                              THEN Some([W |-> Val(args.SimpleBounds)[1],
                                         E |-> Val(args.SimpleBounds)[2],
                                         S |-> Val(args.SimpleBounds)[3],
                                         N |-> Val(args.SimpleBounds)[4],
                                         BoundsIncDateline |-> check.BoundsIncDateline])
                              ELSE None,
             TestBounds |-> given["SimpleBounds"],
             AreaMin |-> args.AreaMin,
             AreaMax |-> args.AreaMax,
             LakeName |-> IF given["LakeName"] THEN Some(Lower(Val(args.LakeName))) ELSE None,
             CountryName |-> IF given["CountryName"] THEN Some(Lower(Val(args.CountryName))) ELSE None,
             SkipIslands |-> args.SkipIslands,
             RunLoud |-> args.RunLoud,
             RunSilent |-> args.RunSilent,
             NumericTestersToRun |-> NumericTestersToRun,
             StringTestersToRun |-> StringTestersToRun,
             RunNumericTesters |-> NumericTestersToRun # <<>>,
             RunStringTesters |-> StringTestersToRun # <<>>,
             HeaderElementsOfInterest |-> HeaderElementsOfInterest,
             HeaderTypeListSubset |->
                 [k \in 1..Len(HeaderElementsOfInterest) |-> HEADER_TYPES[HeaderElementsOfInterest[k] + 1]],
             Pour_long_SearchIndex |-> SearchIndex("Pour_long"),
             Lake_area_SearchIndex |-> SearchIndex("Lake_area"),
             Lake_name_SearchIndex |-> SearchIndex("Lake_name"),
             Country_SearchIndex |-> SearchIndex("Country")]

(***************************************************************************)
(* LakesParser: header extraction and the predicates                       *)
(***************************************************************************)
\* line[4:].split(sep='|')
LineElements(line) ==
    LET rest == SubSeq(line.mark, 5, Len(line.mark))
    IN IF line.flds = <<>> THEN <<rest>>
       ELSE <<rest \o line.flds[1]>> \o Tail(line.flds)

\* the coercion of one element by its HEADER_TYPES entry
CoerceElement(type, raw) ==
    IF type \in {"integer", "double"}
    THEN ParseNumber(raw)
    ELSE [ok |-> TRUE, v |-> Strip(raw)]

\* ExtractLakeHeader: ok with self.LakeAtributesList, or ok = FALSE when the
\* method raises (IndexError on a missing element, ValueError on a number
\* that does not parse)
ExtractLakeHeader(self, line) ==
    LET elems == LineElements(line)
        want == self.HeaderElementsOfInterest
        n == Len(want)
    IN IF \E k \in 1..n : want[k] + 1 > Len(elems)
       THEN [ok |-> FALSE, err |-> "IndexError", LakeAtributesList |-> <<>>]
       ELSE IF \E k \in 1..n :
                  ~CoerceElement(self.HeaderTypeListSubset[k], elems[want[k] + 1]).ok
       THEN [ok |-> FALSE, err |-> "ValueError", LakeAtributesList |-> <<>>]
       ELSE [ok |-> TRUE, err |-> "",
             LakeAtributesList |->
                 [k \in 1..n |-> CoerceElement(self.HeaderTypeListSubset[k],
                                               elems[want[k] + 1]).v]]

\* self.LakeAtributesList[i], i counted from 0
AttributeAt(L, i) == L[i + 1]

\* mutant: the naive test west <= lon <= east, whatever the dateline flag
LakeMatchesBoundsNaive(self, L) ==
    LET B == Val(self.SimpleBounds)
        Lon == AttributeAt(L, Val(self.Pour_long_SearchIndex))
        Lat == AttributeAt(L, Val(self.Pour_long_SearchIndex) + 1)
    IN IF ~(Lat <= B.N /\ Lat >= B.S) THEN FALSE
       ELSE Lon <= B.E /\ Lon >= B.W

\* mutant: the latitude read at Pour_long_SearchIndex, the longitude behind it
LakeMatchesBoundsSwapped(self, L) ==
    LET B == Val(self.SimpleBounds)
        Lon == AttributeAt(L, Val(self.Pour_long_SearchIndex) + 1)
        Lat == AttributeAt(L, Val(self.Pour_long_SearchIndex))
    IN IF ~(Lat <= B.N /\ Lat >= B.S) THEN FALSE
       ELSE IF ~B.BoundsIncDateline
       THEN Lon <= B.E /\ Lon >= B.W
       ELSE IF Lon >= B.W /\ Lon <= LonLimit THEN TRUE
       ELSE IF Lon >= -LonLimit /\ Lon <= B.E THEN TRUE
       ELSE FALSE

LakeMatchesBoundsSimple(self, L) ==
    LET B == Val(self.SimpleBounds)
        Lon == AttributeAt(L, Val(self.Pour_long_SearchIndex))
        Lat == AttributeAt(L, Val(self.Pour_long_SearchIndex) + 1)
    IN IF ~(Lat <= B.N /\ Lat >= B.S) THEN FALSE
       ELSE IF ~B.BoundsIncDateline
       THEN Lon <= B.E /\ Lon >= B.W
       ELSE IF Lon >= B.W /\ Lon <= LonLimit THEN TRUE
       ELSE IF Lon >= -LonLimit /\ Lon <= B.E THEN TRUE
       ELSE FALSE

LakeMatchesBounds(self, L) ==
    IF self.SimpleBounds # None THEN LakeMatchesBoundsSimple(self, L) ELSE TRUE

\* mutant: the lower limit of the area is exclusive
LakeMatchesAreaMinExclusive(self, L) ==
    AttributeAt(L, Val(self.Lake_area_SearchIndex)) > Val(self.AreaMin)

LakeMatchesAreaMin(self, L) ==
    AttributeAt(L, Val(self.Lake_area_SearchIndex)) >= Val(self.AreaMin)

LakeMatchesAreaMax(self, L) ==
    AttributeAt(L, Val(self.Lake_area_SearchIndex)) <= Val(self.AreaMax)

\* mutant: the name is compared without folding the field to lower case
LakeMatchesNameCaseSensitive(self, L) ==
    Contains(AttributeAt(L, Val(self.Lake_name_SearchIndex)), Val(self.LakeName))

LakeMatchesName(self, L) ==
    Contains(Lower(AttributeAt(L, Val(self.Lake_name_SearchIndex))), Val(self.LakeName))

LakeMatchesCountry(self, L) ==
    Contains(Lower(AttributeAt(L, Val(self.Country_SearchIndex))), Val(self.CountryName))

\* getattr(self, TesterFunction)()
RunTester(TesterFunction, self, L) ==
    CASE TesterFunction = "LakeMatchesAreaMin" -> LakeMatchesAreaMin(self, L)
      [] TesterFunction = "LakeMatchesAreaMax" -> LakeMatchesAreaMax(self, L)
      [] TesterFunction = "LakeMatchesName" -> LakeMatchesName(self, L)
      [] TesterFunction = "LakeMatchesCountry" -> LakeMatchesCountry(self, L)

\* the loop that returns False at the first tester that fails
RECURSIVE FirstFailure(_, _, _)
FirstFailure(testers, self, L) ==
    IF testers = <<>> THEN TRUE
    ELSE IF ~RunTester(Head(testers), self, L) THEN FALSE
    ELSE FirstFailure(Tail(testers), self, L)

LakeMatchesAllText(self, L) == FirstFailure(self.StringTestersToRun, self, L)

LakeMatchesAllNumbers(self, L) == FirstFailure(self.NumericTestersToRun, self, L)

\* ParseLAKES, "Run the tests Must match All": the value of SkipThisLake
\* after the three guarded tests
SkipThisLakeAfterTests(self, L) ==
    LET afterBounds == self.TestBounds /\ ~LakeMatchesBounds(self, L)
        afterNumbers ==
            IF self.RunNumericTesters /\ ~afterBounds
            THEN ~LakeMatchesAllNumbers(self, L) ELSE afterBounds
        afterText ==
            IF self.RunStringTesters /\ ~afterNumbers
            THEN ~LakeMatchesAllText(self, L) ELSE afterNumbers
    IN afterText

(***************************************************************************)
(* LakesParser.ParseLAKES                                                  *)
(***************************************************************************)
SmallestLakeInit == 24709000

\* The locals of ParseLAKES in front of the loop, with the output file and
\* pc ("run", or "aborted" once an exception has left the loop).  OutSrc
\* records, for each line of OutFile, the number of the input line it was
\* copied from, 0 for a line the parser made itself; Printed counts the
\* print() calls of the loop.
ParseLAKESStart ==
    [pc |-> "run",
     CountLines |-> 0, CountLakes |-> 0, CountTotalIslands |-> 0,
     CountIslandsThisLake |-> 0, MostIslandsInLake |-> 0,
     SmallestLake |-> SmallestLakeInit, LargestLake |-> 0,
     CountLakesCopied |-> 0, CountTotalIslandsCopied |-> 0,
     SmallestLakeCopied |-> SmallestLakeInit, LargestLakeCopied |-> 0,
     HeaderFound |-> FALSE, LakeHeaderFound |-> FALSE,
     IslandHeaderFound |-> FALSE, SkipThisLake |-> FALSE,
     SkipUntilHeader |-> FALSE,
     LakeAtributesList |-> <<>>,
     OutFile |-> <<>>, OutSrc |-> <<>>, Printed |-> 0]

\* mutant: the boundary is written when it is found and again with the header
WriteSegmentTwice(st, line) ==
    [st EXCEPT !.OutFile = @ \o <<SimpleSegmentHeader, SimpleSegmentHeader, line>>,
               !.OutSrc = @ \o <<0, 0, st.CountLines>>]

\* mutant: the header is written without a boundary line in front of it
WriteSegmentBare(st, line) ==
    [st EXCEPT !.OutFile = Append(@, line), !.OutSrc = Append(@, st.CountLines)]

\* OutFile.write(">\n"); OutFile.write(line)
WriteSegment(st, line) ==
    [st EXCEPT !.OutFile = @ \o <<SimpleSegmentHeader, line>>,
               !.OutSrc = @ \o <<0, st.CountLines>>]

\* OutFile.write(line)
WriteLine(st, line) ==
    [st EXCEPT !.OutFile = Append(@, line), !.OutSrc = Append(@, st.CountLines)]

\* the branch "if line.startswith('# @D')" of the look-ahead
LakeHeaderBranch(self, st, line) ==
    LET s1 == [st EXCEPT !.LakeHeaderFound = TRUE,
                         !.CountLakes = @ + 1,
                         !.MostIslandsInLake =
                             IF st.CountIslandsThisLake > @ THEN st.CountIslandsThisLake ELSE @,
                         !.CountIslandsThisLake = 0]
        ex == ExtractLakeHeader(self, line)
    IN IF ~ex.ok THEN [s1 EXCEPT !.pc = "aborted"]
       ELSE LET s2 == [s1 EXCEPT !.LakeAtributesList = ex.LakeAtributesList]
            IN IF ~SkipThisLakeAfterTests(self, ex.LakeAtributesList)
               THEN [WriteSegment(s2, line) EXCEPT !.SkipThisLake = FALSE,
                                                   !.SkipUntilHeader = FALSE,
                                                   !.CountLakesCopied = @ + 1]
               ELSE [s2 EXCEPT !.SkipThisLake = TRUE, !.SkipUntilHeader = TRUE]

\* mutant: the island branch forgets the SkipIslands flag
IslandIsCopiedWithoutFlag(self, st) == ~st.SkipThisLake

\* "if not SkipThisLake: if not self.SkipIslands:" of the island branch
IslandIsCopied(self, st) == ~st.SkipThisLake /\ ~self.SkipIslands

\* mutant: an island that is not copied leaves SkipUntilHeader as it was
IslandHeaderBranchNoSuppress(self, st, line) ==
    LET s1 == [st EXCEPT !.IslandHeaderFound = TRUE,
                         !.CountTotalIslands = @ + 1,
                         !.CountIslandsThisLake = @ + 1]
    IN IF IslandIsCopied(self, st)
       THEN [WriteSegment(s1, line) EXCEPT !.SkipUntilHeader = FALSE,
                                           !.CountTotalIslandsCopied = @ + 1]
       ELSE s1

\* mutant: an island that is copied is not counted among the islands found
IslandHeaderBranchCopiedUncounted(self, st, line) ==
    LET s1 == [st EXCEPT !.IslandHeaderFound = TRUE,
                         !.CountTotalIslands = @ + 1,
                         !.CountIslandsThisLake = @ + 1]
    IN IF IslandIsCopied(self, st)
       THEN [WriteSegment(st, line) EXCEPT !.IslandHeaderFound = TRUE,
                                           !.SkipUntilHeader = FALSE,
                                           !.CountTotalIslandsCopied = @ + 1]
       ELSE [s1 EXCEPT !.SkipUntilHeader = TRUE]

\* the branch "elif line.startswith('# @H')" of the look-ahead
IslandHeaderBranch(self, st, line) ==
    LET s1 == [st EXCEPT !.IslandHeaderFound = TRUE,
                         !.CountTotalIslands = @ + 1,
                         !.CountIslandsThisLake = @ + 1]
    IN IF IslandIsCopied(self, st)
       THEN [WriteSegment(s1, line) EXCEPT !.SkipUntilHeader = FALSE,
                                           !.CountTotalIslandsCopied = @ + 1]
       ELSE [s1 EXCEPT !.SkipUntilHeader = TRUE]

\* "elif line[0].isdigit() or line[1].isdigit()"
LakesIsDataLine(line) == IsDigitChar(CharAt(line, 0)) \/ IsDigitChar(CharAt(line, 1))

\* mutant: a run that is not silent copies the unexpected line as well
UnexpectedLineEchoed(self, st, line) ==
    IF ~self.RunSilent THEN [WriteLine(st, line) EXCEPT !.Printed = @ + 2] ELSE st

\* the final "else" of the loop: the warning and the line are printed
\* unless the run is silent, nothing is written
UnexpectedLine(self, st, line) ==
    IF ~self.RunSilent THEN [st EXCEPT !.Printed = @ + 2] ELSE st

\* One iteration of "for line in InFile" of ParseLAKES
ParseLAKESLine(self, st, line) ==
    LET s0 == [st EXCEPT !.CountLines = @ + 1]
    IN IF st.HeaderFound
       THEN LET s1 == [s0 EXCEPT !.HeaderFound = FALSE]
            IN IF StartsWith(line, MarkD) THEN LakeHeaderBranch(self, s1, line)
               ELSE IF StartsWith(line, MarkH) THEN IslandHeaderBranch(self, s1, line)
               ELSE [s1 EXCEPT !.Printed = @ + 1]
       ELSE IF IsSpace(line) THEN s0
       ELSE IF CharAt(line, 0) = ">" THEN [s0 EXCEPT !.HeaderFound = TRUE]
       ELSE IF st.SkipUntilHeader THEN s0
       ELSE IF CharAt(line, 0) = "#" THEN WriteLine(s0, line)
       ELSE IF LakesIsDataLine(line) THEN WriteLine(s0, line)
       ELSE UnexpectedLine(self, s0, line)

\* ParseLAKES on a whole file: the loop stops at the first exception
RECURSIVE ParseLAKESFrom(_, _, _)
ParseLAKESFrom(self, st, lines) ==
    IF lines = <<>> \/ st.pc # "run" THEN st
    ELSE ParseLAKESFrom(self, ParseLAKESLine(self, st, Head(lines)), Tail(lines))

ParseLAKES(self, lines) == ParseLAKESFrom(self, ParseLAKESStart, lines)

(***************************************************************************)
(* SHEDSrivParser                                                          *)
(***************************************************************************)
\* The source's 100000000000 and 10000000000 exceed TLC's 32-bit integers;
\* the two largest values TLC has stand for them, in the same order and
\* above every count of the model.
MaxUpstreamDefault == 2147483647
MinUpstreamDefault == -1
SmallestUpstreamCellsInit == 2147483646

\* SHEDSrivParser.ValidateSimpleBounds: the same tests as
\* BoundsDatelineCheck, answering False instead of raising
ValidateSimpleBounds(BoundsList) ==
    LET W == BoundsList[1]
        E == BoundsList[2]
        S == BoundsList[3]
        N == BoundsList[4]
    IN IF ~(S < N) THEN FALSE
       ELSE IF ~(S >= -LatLimit /\ S <= LatLimit) THEN FALSE
       ELSE IF ~(N >= -LatLimit /\ N <= LatLimit) THEN FALSE
       ELSE IF ~(W # E) THEN FALSE
       ELSE IF ~(W >= -LonLimit /\ W <= LonLimit /\ W # E) THEN FALSE
       ELSE IF ~(E >= -LonLimit /\ E <= LonLimit /\ W # E) THEN FALSE
       ELSE TRUE

\* SHEDSrivParser.__init__ on [ThresholdHigh, ThresholdLow, PenColour,
\* PenWidth, SimpleBounds, RunLoud, RunSilent], None for an argument that is not given.  The
\* constructor raises InitInputError unless both thresholds are integers
\* and SimpleBounds is a valid list of four limits.
SHEDSrivParserInit(args) ==
    IF args.ThresholdHigh = None THEN [ok |-> FALSE, err |-> "ThresholdHigh"]
    ELSE IF args.ThresholdLow = None THEN [ok |-> FALSE, err |-> "ThresholdLow"]
    ELSE IF args.SimpleBounds = None THEN [ok |-> FALSE, err |-> "SimpleBounds"]
    ELSE IF ~ValidateSimpleBounds(Val(args.SimpleBounds)) THEN [ok |-> FALSE, err |-> "SimpleBounds"]
    ELSE [ok |-> TRUE, err |-> "",
          ThresholdHigh |-> args.ThresholdHigh,
          ThresholdLow |-> args.ThresholdLow,
          PenColour |-> args.PenColour,
          PenWidth |-> args.PenWidth,
          RunLoud |-> args.RunLoud,
          RunSilent |-> args.RunSilent,
          SimpleBounds |-> Some([W |-> Val(args.SimpleBounds)[1],
                                 E |-> Val(args.SimpleBounds)[2],
                                 S |-> Val(args.SimpleBounds)[3],
                                 N |-> Val(args.SimpleBounds)[4],
                                 BoundsIncDateline |->
                                     ~(Val(args.SimpleBounds)[1] < Val(args.SimpleBounds)[2])]),
          CopyWithinBounds |-> TRUE,
          MaxUpstream |-> Val(args.ThresholdHigh),
          MinUpstream |-> Val(args.ThresholdLow),
          SegmentHeaderIsSimple |-> (args.PenColour = None /\ args.PenWidth = None)]

\* the separator of the fields of a line: "|" inside a comment, blanks elsewhere
HasPipe(line) == line.mark # <<>> /\ line.mark[1] = "#" /\ Len(line.flds) >= 2

\* str.strip() of white space
RECURSIVE WsStrip(_)
WsStrip(t) ==
    IF t # <<>> /\ t[1] \in {" ", "\n"} THEN WsStrip(Tail(t))
    ELSE IF t # <<>> /\ t[Len(t)] \in {" ", "\n"} THEN WsStrip(SubSeq(t, 1, Len(t) - 1))
    ELSE t

\* ParseUpstreamCells: the text after the first "|" (line.find), stripped,
\* must be all digits; ok = FALSE is the UpstreamCountError
ParseUpstreamCells(line) ==
    IF ~HasPipe(line) THEN [ok |-> FALSE, v |-> 0]
    ELSE IF Len(line.flds) > 2 THEN [ok |-> FALSE, v |-> 0]
    ELSE IF ~AllDigits(WsStrip(line.flds[2])) THEN [ok |-> FALSE, v |-> 0]
    ELSE [ok |-> TRUE, v |-> DigitsValue(WsStrip(line.flds[2]))]

UpstreamCellsWithinLimits(self, UpstreamCount) ==
    IF UpstreamCount < self.MinUpstream THEN FALSE
    ELSE IF UpstreamCount > self.MaxUpstream THEN FALSE
    ELSE TRUE

\* mutant: the eastern limit is exclusive
PointWithinBoundryExclusive(Lat, Lon, Bounds) ==
    IF ~(Lat <= Bounds.N /\ Lat >= Bounds.S) THEN FALSE
    ELSE IF ~Bounds.BoundsIncDateline
    THEN Lon < Bounds.E /\ Lon >= Bounds.W
    ELSE IF Lon >= Bounds.W /\ Lon <= LonLimit THEN TRUE
    ELSE IF Lon >= -LonLimit /\ Lon < Bounds.E THEN TRUE
    ELSE FALSE

\* mutant: west <= lon <= east whatever the dateline flag
PointWithinBoundryFlagIgnored(Lat, Lon, Bounds) ==
    IF ~(Lat <= Bounds.N /\ Lat >= Bounds.S) THEN FALSE
    ELSE Lon <= Bounds.E /\ Lon >= Bounds.W

\* PointWithinBoundry(Lat, Lon, Bounds), Bounds the five-element list
PointWithinBoundry(Lat, Lon, Bounds) ==
    IF ~(Lat <= Bounds.N /\ Lat >= Bounds.S) THEN FALSE
    ELSE IF ~Bounds.BoundsIncDateline
    THEN Lon <= Bounds.E /\ Lon >= Bounds.W
    ELSE IF Lon >= Bounds.W /\ Lon <= LonLimit THEN TRUE
    ELSE IF Lon >= -LonLimit /\ Lon <= Bounds.E THEN TRUE
    ELSE FALSE

\* CheckBounds: with CopyWithinBounds True and no SimpleBounds the method
\* falls off its end and returns None, which the caller reads as False
CheckBounds(self, Lat, Lon) ==
    IF self.CopyWithinBounds
    THEN IF self.SimpleBounds # None
         THEN PointWithinBoundry(Lat, Lon, Val(self.SimpleBounds))
         ELSE FALSE
    ELSE TRUE

\* CreateSegmentHeader returns "> -W0.25p,red \n" whatever the pen is
PenSegmentHeader ==
    MkLine(<<">">>, << <<"-", "W", "0", ".", "2", "5", "p", ",", "r", "e", "d">> >>)

CreateSegmentHeader(self, UpstreamCount) == PenSegmentHeader

(***************************************************************************)
(* SHEDSrivParser.ParseRIV                                                 *)
(***************************************************************************)
\* the locals of ParseRIV in front of the loop (UpstreamCells is unbound
\* until the first segment; SavedCommentLine starts as the empty string,
\* whose write adds no line); Printed counts the print() calls of the loop
ParseRIVStart ==
    [pc |-> "run",
     CountLines |-> 0, CountSegments |-> 0, CountSegmentsCopied |-> 0,
     SmallestUpstreamCells |-> SmallestUpstreamCellsInit,
     LargestUpstreamCells |-> 0,
     SegmentHeaderFound |-> FALSE, SkipThisSegment |-> FALSE,
     AboutToCopyFirstSegmentLine |-> FALSE,
     SavedCommentLine |-> None, SavedFrom |-> 0, UpstreamCells |-> 0,
     OutFile |-> <<>>, OutSrc |-> <<>>, Printed |-> 0]

\* what a failing ParseUpstreamCells prints when RunLoud ("Error non digits
\* ..." and the text, nothing when the "|" is missing) and what the handler
\* of ParseRIV prints unless RunSilent
PrintedOnCountError(self, line) ==
    (IF self.RunLoud /\ HasPipe(line) THEN 2 ELSE 0) + (IF ~self.RunSilent THEN 2 ELSE 0)

\* mutant: the count 0 of a line that could not be parsed enters the
\* smallest / largest statistics like any other count
RivSegmentHeaderBlockCountsZero(self, st, line) ==
    IF ~st.SegmentHeaderFound THEN st
    ELSE LET p == ParseUpstreamCells(line)
             UpstreamCells == IF p.ok THEN p.v ELSE 0
             s1 == [st EXCEPT !.SegmentHeaderFound = FALSE,
                              !.CountSegments = @ + 1,
                              !.UpstreamCells = UpstreamCells,
                              !.Printed = IF p.ok THEN @ ELSE @ + PrintedOnCountError(self, line),
                              !.LargestUpstreamCells =
                                  IF UpstreamCells > @ THEN UpstreamCells ELSE @,
                              !.SmallestUpstreamCells =
                                  IF UpstreamCells < @ THEN UpstreamCells ELSE @]
         IN IF UpstreamCellsWithinLimits(self, UpstreamCells)
            THEN [s1 EXCEPT !.CountSegmentsCopied = @ + 1,
                            !.SkipThisSegment = FALSE,
                            !.AboutToCopyFirstSegmentLine = TRUE]
            ELSE [s1 EXCEPT !.SkipThisSegment = TRUE]

\* "if SegmentHeaderFound:" - the line after a boundary is parsed for the
\* upstream count and the segment is accepted or skipped
RivSegmentHeaderBlock(self, st, line) ==
    IF ~st.SegmentHeaderFound THEN st
    ELSE LET p == ParseUpstreamCells(line)
             UpstreamCells == IF p.ok THEN p.v ELSE 0
             s1 == [st EXCEPT !.SegmentHeaderFound = FALSE,
                              !.CountSegments = @ + 1,
                              !.UpstreamCells = UpstreamCells,
                              !.Printed = IF p.ok THEN @ ELSE @ + PrintedOnCountError(self, line),
                              !.LargestUpstreamCells =
                                  IF p.ok /\ UpstreamCells > @ THEN UpstreamCells ELSE @,
                              !.SmallestUpstreamCells =
                                  IF p.ok /\ UpstreamCells < @ THEN UpstreamCells ELSE @]
         IN IF UpstreamCellsWithinLimits(self, UpstreamCells)
            THEN [s1 EXCEPT !.CountSegmentsCopied = @ + 1,
                            !.SkipThisSegment = FALSE,
                            !.AboutToCopyFirstSegmentLine = TRUE]
            ELSE [s1 EXCEPT !.SkipThisSegment = TRUE]

\* the boundary line, the saved comment and the first coordinate line
RivWriteSegment(self, st, line) ==
    LET hdr == IF self.SegmentHeaderIsSimple THEN SimpleSegmentHeader
               ELSE CreateSegmentHeader(self, st.UpstreamCells)
        saved == IF st.SavedCommentLine = None THEN <<>> ELSE <<Val(st.SavedCommentLine)>>
        savedSrc == IF st.SavedCommentLine = None THEN <<>> ELSE <<st.SavedFrom>>
    IN [st EXCEPT !.OutFile = @ \o <<hdr>> \o saved \o <<line>>,
                  !.OutSrc = @ \o <<0>> \o savedSrc \o <<st.CountLines>>]

\* "elif line[1].isdigit() and AboutToCopyFirstSegmentLine": Lon, Lat =
\* line.split() and the two float() calls raise ValueError on a line that
\* is not two numbers
RivFirstSegmentLine(self, st, line) ==
    LET s1 == [st EXCEPT !.AboutToCopyFirstSegmentLine = FALSE]
    IN IF self.CopyWithinBounds
       THEN IF Len(line.flds) # 2
                 \/ ~ParseNumber(line.flds[1]).ok \/ ~ParseNumber(line.flds[2]).ok
            THEN [s1 EXCEPT !.pc = "aborted"]
            ELSE IF CheckBounds(self, ParseNumber(line.flds[2]).v, ParseNumber(line.flds[1]).v)
                 THEN RivWriteSegment(self, s1, line)
                 ELSE [s1 EXCEPT !.SkipThisSegment = TRUE]
       ELSE RivWriteSegment(self, s1, line)

\* the final "else" of the loop: two print() calls unless the run is silent
RivUnexpectedLine(self, st, line) ==
    IF ~self.RunSilent THEN [st EXCEPT !.Printed = @ + 2] ELSE st

\* One iteration of "for line in InFile" of ParseRIV
ParseRIVLine(self, st, line) ==
    LET s0 == RivSegmentHeaderBlock(self, [st EXCEPT !.CountLines = @ + 1], line)
    IN IF IsSpace(line) THEN s0
       ELSE IF CharAt(line, 0) = ">" THEN [s0 EXCEPT !.SegmentHeaderFound = TRUE]
       ELSE IF s0.SkipThisSegment THEN s0
       ELSE IF CharAt(line, 0) = "#"
       THEN IF s0.AboutToCopyFirstSegmentLine
            THEN [s0 EXCEPT !.SavedCommentLine = Some(line), !.SavedFrom = s0.CountLines]
            ELSE [s0 EXCEPT !.OutFile = Append(@, line), !.OutSrc = Append(@, s0.CountLines)]
       ELSE IF IsDigitChar(CharAt(line, 1)) /\ s0.AboutToCopyFirstSegmentLine
       THEN RivFirstSegmentLine(self, s0, line)
       ELSE IF IsDigitChar(CharAt(line, 1))
       THEN [s0 EXCEPT !.OutFile = Append(@, line), !.OutSrc = Append(@, s0.CountLines)]
       ELSE RivUnexpectedLine(self, s0, line)

\* ParseRIV on a whole file
RECURSIVE ParseRIVFrom(_, _, _)
ParseRIVFrom(self, st, lines) ==
    IF lines = <<>> \/ st.pc # "run" THEN st
    ELSE ParseRIVFrom(self, ParseRIVLine(self, st, Head(lines)), Tail(lines))

ParseRIV(self, lines) == ParseRIVFrom(self, ParseRIVStart, lines)

(***************************************************************************)
(* State                                                                   *)
(***************************************************************************)
VARIABLES
    self,    \* the parser object the constructor has built
    InFile,  \* the lines of the input file seen so far (read or, after an
             \* abort, left unread)
    run,     \* the locals of the running ParseLAKES / ParseRIV
    Bounds,  \* the list [W, E, S, N] handed to the bounds validator
    Point,   \* the point <<Lon, Lat>> handed to the bounds predicates
    answer   \* what the validator and the two predicates answered

vars == <<self, InFile, run, Bounds, Point, answer>>

\* --- bounds of the model -------------------------------------------------
MaxLines == 5

\* --- the texts and lines the model files are made of ---------------------
NameErie == <<"\"", "E", "r", "i", "e", "\"">>
CountryCanada == <<"\"", "C", "a", "n", "a", "d", "a", "\"">>
Filler == <<"0">>

\* a "# @D" header with the 21 elements of HEADER_ORDER
LakeHeader(name, country, area, lon, lat) ==
    MkLine(MarkD,
           << <<"1">>, name, country, Filler, Filler, Filler, Filler, area,
              Filler, Filler, Filler, Filler, Filler, Filler, Filler, Filler,
              Filler, Filler, Filler, lon, lat >>)

Boundary == MkLine(<<">">>, <<>>)
BoundaryPen == MkLine(<<">">>, << <<"-", "W", "1", "p">> >>)
BlankLine == MkLine(<<>>, <<>>)
LakeIn == LakeHeader(NameErie, CountryCanada, <<"1", "0">>, <<"3">>, <<"-", "2">>)
LakeOut == LakeHeader(NameErie, CountryCanada, <<"2">>, <<"3">>, <<"-", "2">>)
LakeBad == LakeHeader(NameErie, CountryCanada, <<"n", "a">>, <<"3">>, <<"-", "2">>)
IslandHeader == MkLine(MarkH, <<>>)
PolygonComment == MkLine(MarkP, <<>>)
DataLine == MkLine(<<>>, << <<"-", "1">>, <<"2">> >>)
DataLineFar == MkLine(<<>>, << <<"1", "2">>, <<"7">> >>)
DataLineThree == MkLine(<<>>, << <<"-", "1">>, <<"2">>, <<"0">> >>)
DataLineShort == MkLine(<<>>, << <<"5">>, <<"2">> >>)
RivComment121 == MkLine(MarkD, << <<"1">>, <<"1", "2", "1">> >>)
RivComment3 == MkLine(MarkD, << <<"2">>, <<"3">> >>)
RivCommentNoCount == MkLine(MarkD, << <<"3">> >>)

LakeLines ==
    {Boundary, BoundaryPen, BlankLine, LakeIn, LakeOut, LakeBad, IslandHeader,
     PolygonComment, DataLine}

RivLines ==
    {Boundary, BlankLine, RivComment121, RivComment3, RivCommentNoCount,
     PolygonComment, DataLine, DataLineFar, DataLineThree, DataLineShort}

\* --- the constructor arguments of the model ------------------------------
BoxAroundOrigin == <<-10, 10, -5, 5>>

NoFilter ==
    [SimpleBounds |-> None, AreaMin |-> None, AreaMax |-> None,
     LakeName |-> None, CountryName |-> None, SkipIslands |-> FALSE,
     RunLoud |-> FALSE, RunSilent |-> FALSE]

AllFilters ==
    [SimpleBounds |-> Some(BoxAroundOrigin), AreaMin |-> Some(5),
     AreaMax |-> Some(50), LakeName |-> Some(<<"E", "R", "I">>),
     CountryName |-> Some(<<"c", "a", "n">>), SkipIslands |-> FALSE,
     RunLoud |-> FALSE, RunSilent |-> FALSE]

LakeArgs ==
    {NoFilter, AllFilters, [AllFilters EXCEPT !.SkipIslands = TRUE]}

RivDefaults ==
    [ThresholdHigh |-> Some(MaxUpstreamDefault), ThresholdLow |-> Some(MinUpstreamDefault),
     PenColour |-> None, PenWidth |-> None, SimpleBounds |-> Some(BoxAroundOrigin),
     RunLoud |-> FALSE, RunSilent |-> FALSE]

RivArgs ==
    {RivDefaults,
     [RivDefaults EXCEPT !.ThresholdLow = Some(5), !.ThresholdHigh = Some(500)],
     [RivDefaults EXCEPT !.ThresholdLow = Some(5), !.PenWidth = Some(<<"1", "p">>),
                         !.PenColour = Some(<<"b", "l", "u", "e">>)]}

\* the values of the variables a specification does not use
NoCall == [op |-> "none", check |-> [ok |-> FALSE], lakes |-> FALSE, rivers |-> FALSE]
IdleParser == /\ self = [ok |-> FALSE]
              /\ InFile = <<>>
              /\ run = [pc |-> "idle"]
IdleBounds == /\ Bounds = <<>>
              /\ Point = <<>>
              /\ answer = NoCall

(***************************************************************************)
(* The Lakes run as a state machine                                        *)
(***************************************************************************)
Init ==
    /\ \E args \in LakeArgs :
          /\ LakesParserInit(args).ok
          /\ self = LakesParserInit(args)
    /\ InFile = <<>>
    /\ run = ParseLAKESStart
    /\ IdleBounds

\* the loop of ParseLAKES takes the next line of the file
ReadLine(line) ==
    /\ run.pc = "run"
    /\ Len(InFile) < MaxLines
    /\ InFile' = Append(InFile, line)
    /\ run' = ParseLAKESLine(self, run, line)
    /\ UNCHANGED <<self, Bounds, Point, answer>>

\* after an exception the rest of the file is never read
LeaveUnread(line) ==
    /\ run.pc = "aborted"
    /\ Len(InFile) < MaxLines
    /\ InFile' = Append(InFile, line)
    /\ UNCHANGED <<self, run, Bounds, Point, answer>>

Next ==
    \/ \E line \in LakeLines : ReadLine(line)
    \/ \E line \in LakeLines : LeaveUnread(line)

Spec == Init /\ [][Next]_vars

(***************************************************************************)
(* The Rivers run as a state machine                                       *)
(***************************************************************************)
RivInit ==
    /\ \E args \in RivArgs :
          /\ SHEDSrivParserInit(args).ok
          /\ self = SHEDSrivParserInit(args)
    /\ InFile = <<>>
    /\ run = ParseRIVStart
    /\ IdleBounds

\* the loop of ParseRIV takes the next line of the file
RivReadLine(line) ==
    /\ run.pc = "run"
    /\ Len(InFile) < MaxLines
    /\ InFile' = Append(InFile, line)
    /\ run' = ParseRIVLine(self, run, line)
    /\ UNCHANGED <<self, Bounds, Point, answer>>

RivLeaveUnread(line) ==
    /\ run.pc = "aborted"
    /\ Len(InFile) < MaxLines
    /\ InFile' = Append(InFile, line)
    /\ UNCHANGED <<self, run, Bounds, Point, answer>>

RivNext ==
    \/ \E line \in RivLines : RivReadLine(line)
    \/ \E line \in RivLines : RivLeaveUnread(line)

SpecRiv == RivInit /\ [][RivNext]_vars

(***************************************************************************)
(* The bounds validator and the two bounds predicates, called on their own *)
(***************************************************************************)
LonValues == {-181, -180, -170, 0, 170, 180, 181}
LatValues == {-91, -90, -5, 5, 10, 90, 91, 100}
PointLons == {-185, -180, -175, -170, -169, 0, 169, 170, 175, 180, 185}
PointLats == {-91, -90, -6, -5, 0, 5, 6, 10, 90, 91}

\* the Lakes parser built with these bounds as its only filter
LakesWithBounds(B) == LakesParserInit([NoFilter EXCEPT !.SimpleBounds = Some(B)])

\* the Rivers parser built with these bounds
RiversWithBounds(B) == SHEDSrivParserInit([RivDefaults EXCEPT !.SimpleBounds = Some(B)])

BoundsInit ==
    /\ Bounds \in {<<w, e, s, n>> : w \in LonValues, e \in LonValues,
                                    s \in LatValues, n \in LatValues}
    /\ Point = <<>>
    /\ answer = NoCall
    /\ IdleParser

\* LakesParser.BoundsDatelineCheck(Bounds)
CallBoundsDatelineCheck ==
    /\ answer.op = "none"
    /\ answer' = [answer EXCEPT !.op = "BoundsDatelineCheck",
                                !.check = BoundsDatelineCheck(Bounds)]
    /\ UNCHANGED <<self, InFile, run, Bounds, Point>>

\* LakeMatchesBoundsSimple for a lake whose pour point is <<Lon, Lat>>,
\* in a parser built with the validated bounds
CallLakeMatchesBoundsSimple(Lon, Lat) ==
    /\ answer.op = "BoundsDatelineCheck"
    /\ answer.check.ok
    /\ Point' = <<Lon, Lat>>
    /\ answer' = [answer EXCEPT !.op = "LakeMatchesBoundsSimple",
                                !.lakes = LakeMatchesBoundsSimple(LakesWithBounds(Bounds),
                                                                  <<Lon, Lat>>)]
    /\ UNCHANGED <<self, InFile, run, Bounds>>

\* PointWithinBoundry(Lat, Lon, self.SimpleBounds) for the same point
CallPointWithinBoundry ==
    /\ answer.op = "LakeMatchesBoundsSimple"
    /\ RiversWithBounds(Bounds).ok
    /\ answer' = [answer EXCEPT !.op = "PointWithinBoundry",
                                !.rivers = PointWithinBoundry(Point[2], Point[1],
                                               Val(RiversWithBounds(Bounds).SimpleBounds))]
    /\ UNCHANGED <<self, InFile, run, Bounds, Point>>

BoundsNext ==
    \/ CallBoundsDatelineCheck
    \/ \E Lon \in PointLons, Lat \in PointLats : CallLakeMatchesBoundsSimple(Lon, Lat)
    \/ CallPointWithinBoundry

SpecBounds == BoundsInit /\ [][BoundsNext]_vars

(***************************************************************************)
(* Properties of the Lakes run                                             *)
(***************************************************************************)
\* input line i was copied to the output
Written(i) == \E k \in 1..Len(run.OutSrc) : run.OutSrc[k] = i

\* input line i was copied to the output right behind a boundary line that
\* the parser wrote for it
HeaderEmitted(i) ==
    \E k \in 2..Len(run.OutSrc) :
        /\ run.OutSrc[k] = i
        /\ run.OutSrc[k - 1] = 0
        /\ CharAt(run.OutFile[k - 1], 0) = ">"

\* a line that begins with ">"
IsBoundaryLine(line) == CharAt(line, 0) = ">"

\* line j of lines is a boundary line that arms the one-line look-ahead: it
\* is not itself the line looked at after an arming boundary line
RECURSIVE Arms(_, _)
Arms(lines, j) ==
    /\ IsBoundaryLine(lines[j])
    /\ (j = 1 \/ ~Arms(lines, j - 1))

\* line i is the line the look-ahead inspects
AtLookAhead(lines, i) == i > 1 /\ Arms(lines, i - 1)

\* line i directly follows a line that begins with ">"
AfterBoundaryLine(lines, i) == i > 1 /\ IsBoundaryLine(lines[i - 1])

IsLakeHeader(line) == StartsWith(line, MarkD)
IsIslandHeader(line) == StartsWith(line, MarkH)

\* the largest element of a set of positions, 0 for the empty set
Latest(S) == IF S = {} THEN 0 ELSE CHOOSE x \in S : \A y \in S : y <= x

\* the element of the header at a position of HEADER_ORDER, None if missing
ElementAt(line, pos) ==
    IF pos + 1 <= Len(line.flds) THEN Some(line.flds[pos + 1]) ELSE None

NumberAt(line, pos) ==
    IF ElementAt(line, pos) # None /\ ParseNumber(Val(ElementAt(line, pos))).ok
    THEN Some(ParseNumber(Val(ElementAt(line, pos))).v) ELSE None

\* every predicate the parser was configured with holds for the header:
\* the pour point (elements 19 and 20) inside the bounds, the area (element
\* 7) within AreaMin and AreaMax, the name (1) and the country (2)
\* containing the configured texts
HeaderSatisfiesAll(line) ==
    LET lon == NumberAt(line, 19)
        lat == NumberAt(line, 20)
        area == NumberAt(line, 7)
        B == Val(self.SimpleBounds)
    IN /\ self.SimpleBounds # None =>
             /\ lon # None /\ lat # None
             /\ B.S <= Val(lat) /\ Val(lat) <= B.N
             /\ IF B.W < B.E THEN B.W <= Val(lon) /\ Val(lon) <= B.E
                ELSE Val(lon) >= B.W \/ Val(lon) <= B.E
       /\ self.AreaMin # None => area # None /\ Val(area) >= Val(self.AreaMin)
       /\ self.AreaMax # None => area # None /\ Val(area) <= Val(self.AreaMax)
       /\ self.LakeName # None =>
             /\ ElementAt(line, 1) # None
             /\ Contains(Lower(Strip(Val(ElementAt(line, 1)))), Val(self.LakeName))
       /\ self.CountryName # None =>
             /\ ElementAt(line, 2) # None
             /\ Contains(Lower(Strip(Val(ElementAt(line, 2)))), Val(self.CountryName))

\* C1: a "# @D" lake header on the line right after a line that begins
\* with ">" is written, behind a boundary line, if and only if every active
\* predicate holds for it - whatever came before it in the file.
C1_LakeHeaderWrittenIffPredicates ==
    \A i \in 1..Len(InFile) :
        (AfterBoundaryLine(InFile, i) /\ IsLakeHeader(InFile[i]))
            => (HeaderEmitted(i) <=> HeaderSatisfiesAll(InFile[i]))

\* the lake header an island header at position i belongs to: the latest
\* lake header before it that satisfies Where, 0 if there is none
LakeBefore(i, Where(_)) ==
    Latest({j \in 1..(i - 1) : IsLakeHeader(InFile[j]) /\ Where(j)})

\* the lines from the header at g up to the next lake header that
\* satisfies Where
LinesOfLake(g, Where(_)) ==
    {k \in (g + 1)..Len(InFile) :
        \A j \in (g + 1)..k : ~(IsLakeHeader(InFile[j]) /\ Where(j))}

InspectedLine(j) == AtLookAhead(InFile, j)
FollowsBoundary(j) == AfterBoundaryLine(InFile, j)

\* C2: for every accepted lake, every island header that comes right after
\* a line beginning with ">" and before the next lake header is written iff
\* SkipIslands is false; for a rejected lake no island header and no island
\* line is written.
C2_IslandsFollowTheirLake ==
    \A i \in 1..Len(InFile) :
        (FollowsBoundary(i) /\ IsIslandHeader(InFile[i]) /\ LakeBefore(i, FollowsBoundary) > 0)
            => IF HeaderEmitted(LakeBefore(i, FollowsBoundary))
               THEN Written(i) <=> ~self.SkipIslands
               ELSE \A k \in LinesOfLake(LakeBefore(i, FollowsBoundary), FollowsBoundary) :
                        ~Written(k)

\* the latest header (lake or island) the look-ahead inspected at or before
\* line k, 0 if there is none
LatestInspectedHeader(k) ==
    Latest({h \in 1..k : InspectedLine(h)
                           /\ (IsLakeHeader(InFile[h]) \/ IsIslandHeader(InFile[h]))})

\* C3: once a lake header was rejected or an island header was not emitted,
\* no line is written until a header after a later boundary line is
\* accepted: every line in the output is either older than every inspected
\* header or its latest inspected header was emitted.
C3_NothingWrittenWhileSuppressed ==
    \A m \in 1..Len(run.OutSrc) :
        run.OutSrc[m] # 0 =>
            \/ LatestInspectedHeader(run.OutSrc[m]) = 0
            \/ HeaderEmitted(LatestInspectedHeader(run.OutSrc[m]))

\* a comment or coordinate line behind a header that was not emitted has
\* been read and dropped, and a later header was emitted again
C3_Witness ==
    /\ run.pc = "run"
    /\ \E h \in 1..Len(InFile), k \in 1..Len(InFile), a \in 1..Len(InFile) :
          /\ h < k /\ k < a
          /\ LatestInspectedHeader(k) = h
          /\ ~HeaderEmitted(h)
          /\ InFile[k] \in {PolygonComment, DataLine}
          /\ ~Written(k)
          /\ HeaderEmitted(a)

\* a is a subsequence of b
RECURSIVE IsSubsequence(_, _)
IsSubsequence(a, b) ==
    IF a = <<>> THEN TRUE
    ELSE IF b = <<>> THEN FALSE
    ELSE IF Head(a) = Head(b) THEN IsSubsequence(Tail(a), Tail(b))
    ELSE IsSubsequence(a, Tail(b))

\* C4: the output is a subsequence of the input: every line written, the
\* boundary lines included, is identical to an input line and the lines
\* keep their order.
C4_OutputIsSubsequenceOfInput == IsSubsequence(run.OutFile, InFile)

\* C5: ParseLAKES run on its own output, with the same parser, writes that
\* output again line for line.
C5_Idempotent == ParseLAKES(self, run.OutFile).OutFile = run.OutFile

\* a filtering run: with filters set, a lake was emitted and another line
\* of the input was dropped
C5_Witness ==
    /\ self.TestBounds
    /\ Len(run.OutFile) < Len(InFile)
    /\ \E i \in 1..Len(InFile) : IsLakeHeader(InFile[i]) /\ HeaderEmitted(i)
    /\ \E i \in 1..Len(InFile) : IsLakeHeader(InFile[i]) /\ ~Written(i)

\* lines with a blank line put in behind the first i lines
WithBlankAt(lines, i) ==
    SubSeq(lines, 1, i) \o <<BlankLine>> \o SubSeq(lines, i + 1, Len(lines))

\* C6: a blank line put in anywhere in the input of ParseLAKES, also
\* between a boundary line and its header, does not change the output.
C6_BlankLinesIgnored ==
    \A i \in 0..Len(InFile) :
        ParseLAKES(self, WithBlankAt(InFile, i)).OutFile = ParseLAKES(self, InFile).OutFile

(***************************************************************************)
(* Properties of the bounds validator and the two bounds predicates        *)
(***************************************************************************)
BoundsW == Bounds[1]
BoundsE == Bounds[2]
BoundsS == Bounds[3]
BoundsN == Bounds[4]

\* the Lakes predicate has answered for Point
LakesAnswered == answer.op \in {"LakeMatchesBoundsSimple", "PointWithinBoundry"}

\* both predicates have answered for Point
BothAnswered == answer.op = "PointWithinBoundry"

LatitudeInside == BoundsS <= Point[2] /\ Point[2] <= BoundsN

\* C7: for a box with west < east both predicates accept the point iff
\* south <= lat <= north and west <= lon <= east, the limits included.
C7_NonCrossingBoxInclusive ==
    LET inside == LatitudeInside /\ BoundsW <= Point[1] /\ Point[1] <= BoundsE
    IN /\ (LakesAnswered /\ BoundsW < BoundsE) => (answer.lakes <=> inside)
       /\ (BothAnswered /\ BoundsW < BoundsE) => (answer.rivers <=> inside)

\* a point on the eastern and the southern limit of a non-crossing box was
\* accepted by both predicates
C7_Witness ==
    /\ BothAnswered
    /\ BoundsW < BoundsE
    /\ Point = <<BoundsE, BoundsS>>
    /\ answer.lakes /\ answer.rivers

\* C8 as stated: for a box that crosses the dateline a point whose latitude
\* is inside is accepted iff lon >= west or lon <= east, for every longitude.
C8_CrossingBoxAnyLongitude ==
    LET inside == Point[1] >= BoundsW \/ Point[1] <= BoundsE
    IN /\ (LakesAnswered /\ BoundsW > BoundsE /\ LatitudeInside) => (answer.lakes <=> inside)
       /\ (BothAnswered /\ BoundsW > BoundsE /\ LatitudeInside) => (answer.rivers <=> inside)

\* C8 (amended): for a box that crosses the dateline a point whose latitude
\* is inside and whose longitude is in [-180, 180] is accepted iff
\* lon >= west or lon <= east; a longitude outside [-180, 180] is never
\* accepted.
C8_CrossingBoxValidLongitude ==
    LET valid == -180 <= Point[1] /\ Point[1] <= 180
        inside == valid /\ (Point[1] >= BoundsW \/ Point[1] <= BoundsE)
    IN /\ (LakesAnswered /\ BoundsW > BoundsE /\ LatitudeInside) => (answer.lakes <=> inside)
       /\ (BothAnswered /\ BoundsW > BoundsE /\ LatitudeInside) => (answer.rivers <=> inside)

\* with W = 170 and E = -170 the longitude 175 was accepted by both
\* predicates
C8_Witness ==
    /\ BothAnswered
    /\ BoundsW = 170 /\ BoundsE = -170
    /\ LatitudeInside
    /\ Point[1] = 175
    /\ answer.lakes /\ answer.rivers

\* C9: BoundsDatelineCheck succeeds iff S < N, S and N are in [-90, 90],
\* W # E and W and E are in [-180, 180]; on success the dateline flag is
\* W >= E.
C9_ValidatorAcceptance ==
    answer.op # "none" =>
        /\ answer.check.ok <=>
              /\ BoundsS < BoundsN
              /\ -90 <= BoundsS /\ BoundsS <= 90
              /\ -90 <= BoundsN /\ BoundsN <= 90
              /\ BoundsW # BoundsE
              /\ -180 <= BoundsW /\ BoundsW <= 180
              /\ -180 <= BoundsE /\ BoundsE <= 180
        /\ answer.check.ok => (answer.check.BoundsIncDateline <=> BoundsW >= BoundsE)

\* the full-globe band was accepted, with the dateline flag false
C9_Witness ==
    /\ answer.op = "BoundsDatelineCheck"
    /\ Bounds = <<-180, 180, -90, 90>>
    /\ answer.check.ok
    /\ ~answer.check.BoundsIncDateline

\* C10: the validator reports 'S' whenever S is outside [-90, 90], 'N'
\* whenever N is outside [-90, 90], 'SN' for S >= N and 'WE' for W = E
\* (where several apply, the first of this list).
C10_ValidatorErrorKinds ==
    answer.op # "none" =>
        IF BoundsS < -90 \/ BoundsS > 90 THEN answer.check.Directions = "S"
        ELSE IF BoundsN < -90 \/ BoundsN > 90 THEN answer.check.Directions = "N"
        ELSE IF BoundsS >= BoundsN THEN answer.check.Directions = "SN"
        ELSE IF BoundsW = BoundsE THEN answer.check.Directions = "WE"
        ELSE TRUE

\* two lakes with one island each, the first inside BoxAroundOrigin and the
\* second outside it
TwoLakesOneInside ==
    << Boundary, LakeIn, PolygonComment, DataLine, Boundary, IslandHeader, DataLine,
       Boundary, LakeHeader(NameErie, CountryCanada, <<"1", "0">>, <<"1", "2">>, <<"7">>),
       PolygonComment, DataLineFar, Boundary, IslandHeader, DataLineFar >>

\* C22: when ParseLAKES finishes, CountLakes is the number of lake headers
\* that follow a boundary line, CountLakesCopied the number of those that
\* were written, CountTotalIslands the number of island headers that follow
\* a boundary line and CountTotalIslandsCopied the number of those that were
\* written; and of two lakes with one island each, one inside and one
\* outside the bounds, exactly the lake inside and its island are written,
\* with CountLakesCopied = 1 and CountTotalIslandsCopied = 1.
C22_CountsMatchHeaders ==
    /\ run.pc = "run" =>
          /\ run.CountLakes =
                Cardinality({i \in 1..Len(InFile) :
                                FollowsBoundary(i) /\ IsLakeHeader(InFile[i])})
          /\ run.CountLakesCopied =
                Cardinality({i \in 1..Len(InFile) :
                                FollowsBoundary(i) /\ IsLakeHeader(InFile[i]) /\ Written(i)})
          /\ run.CountTotalIslands =
                Cardinality({i \in 1..Len(InFile) :
                                FollowsBoundary(i) /\ IsIslandHeader(InFile[i])})
          /\ run.CountTotalIslandsCopied =
                Cardinality({i \in 1..Len(InFile) :
                                FollowsBoundary(i) /\ IsIslandHeader(InFile[i]) /\ Written(i)})
    /\ LET st == ParseLAKES(LakesParserInit([NoFilter EXCEPT
                                !.SimpleBounds = Some(BoxAroundOrigin)]),
                            TwoLakesOneInside)
       IN /\ st.pc = "run"
          /\ st.OutFile = << Boundary, LakeIn, PolygonComment, DataLine,
                             Boundary, IslandHeader, DataLine >>
          /\ st.CountLakesCopied = 1
          /\ st.CountTotalIslandsCopied = 1

\* the island headers that belong to the lake whose header is line g: the
\* inspected island headers behind g and before the next inspected lake
\* header
IslandsOfLake(g) ==
    {k \in LinesOfLake(g, InspectedLine) : InspectedLine(k) /\ IsIslandHeader(InFile[k])}

\* C23: when ParseLAKES finishes, MostIslandsInLake is the largest number
\* of island headers any lake of the input has, the last lake before the
\* end of the file included.
C23_MostIslandsCoversLastLake ==
    run.pc = "run" =>
        run.MostIslandsInLake =
            Latest({Cardinality(IslandsOfLake(g)) :
                       g \in {j \in 1..Len(InFile) :
                                 InspectedLine(j) /\ IsLakeHeader(InFile[j])}})

\* the lake headers the run has evaluated, and those of them it has written
LakesSeen == {j \in 1..Len(InFile) : InspectedLine(j) /\ IsLakeHeader(InFile[j])}
LakesCopied == {j \in LakesSeen : HeaderEmitted(j)}

\* the areas (element 7 of the header) of a set of lake headers
AreasOf(S) == {Val(NumberAt(InFile[j], 7)) : j \in S}

\* the smallest element of a non-empty set of numbers
Smallest(S) == CHOOSE x \in S : \A y \in S : x <= y

\* C24: when ParseLAKES finishes on an input with at least one lake and an
\* area predicate active, SmallestLake and LargestLake are the minimum and
\* the maximum area of the lakes seen, and SmallestLakeCopied and
\* LargestLakeCopied those of the lakes written.
C24_SizeExtrema ==
    (/\ run.pc = "run"
     /\ self.AreaMin # None \/ self.AreaMax # None
     /\ LakesSeen # {})
        => /\ run.SmallestLake = Smallest(AreasOf(LakesSeen))
           /\ run.LargestLake = Latest(AreasOf(LakesSeen))
           /\ LakesCopied # {} =>
                 /\ run.SmallestLakeCopied = Smallest(AreasOf(LakesCopied))
                 /\ run.LargestLakeCopied = Latest(AreasOf(LakesCopied))

\* the loop reads a line that comes right after a boundary line and is
\* neither a "# @D" nor a "# @H" header
ReadsAnomalousHeader ==
    /\ run.pc = "run"
    /\ InFile # <<>>
    /\ IsBoundaryLine(InFile[Len(InFile)])
    /\ \E line \in LakeLines :
          /\ ~IsLakeHeader(line) /\ ~IsIslandHeader(line)
          /\ InFile' = Append(InFile, line)

\* C29: when the line right after a boundary line is neither a "# @D" nor
\* a "# @H" header, the line is not written, the look-ahead is disarmed,
\* and SkipThisLake, SkipUntilHeader and every counter but the line count
\* stay as they were; the run continues.
C29_AnomalousHeaderChangesNothing ==
    [][ReadsAnomalousHeader =>
          run' = [run EXCEPT !.CountLines = @ + 1,
                             !.HeaderFound = FALSE,
                             !.Printed = run'.Printed]]_vars

\* line j is a lake header behind a boundary line that satisfies every
\* active predicate
PassingLakeHeader(j) ==
    FollowsBoundary(j) /\ IsLakeHeader(InFile[j]) /\ HeaderSatisfiesAll(InFile[j])

\* C30: nothing between a lake header that fails the predicates and the
\* next lake header that passes them is written - neither the failing
\* header itself nor any header, comment or coordinate line behind it -
\* also when boundary lines are duplicated or followed by a non-header line.
C30_RejectedLakeNeverLeaks ==
    \A g \in 1..Len(InFile) :
        (FollowsBoundary(g) /\ IsLakeHeader(InFile[g]) /\ ~HeaderSatisfiesAll(InFile[g]))
            => \A k \in {g} \cup LinesOfLake(g, PassingLakeHeader) :
                   IsBoundaryLine(InFile[k]) \/ ~Written(k)

(***************************************************************************)
(* The Lakes constructor, ExtractLakeHeader and the testers, called on one *)
(* header line                                                             *)
(***************************************************************************)
\* the name and country fields of the header lines
NameUpper == <<"\"", "E", "R", "I", "E", "\"">>
NameSpaced == <<" ", "\"", "e", "r", "i", "e", "\"", " ">>
NameOther == <<"\"", "O", "n", "t", "\"">>
NameEmpty == <<"\"", "\"">>
CountryEmpty == <<>>

\* a header line that stops after the Country element
LakeShort == MkLine(MarkD, <<Filler, NameErie, CountryCanada>>)

HeaderLines ==
    {LakeHeader(n, c, a, <<"3">>, <<"-", "2">>) :
        n \in {NameErie, NameUpper, NameSpaced, NameOther, NameEmpty},
        c \in {CountryCanada, CountryEmpty},
        a \in {<<"1">>, <<"2">>, <<"3">>, <<"n", "a">>}}
      \cup {LakeShort}

\* the arguments the command line hands to the constructor
AreaArgs == {None, Some(1), Some(2), Some(3)}
LakeNameArgs == {None, Some(<<"E", "R", "I">>), Some(<<"e", "r", "i">>), Some(<<"!">>)}
CountryNameArgs == {None, Some(<<"C", "a", "n">>), Some(<<"!">>)}

CallArgs ==
    {[NoFilter EXCEPT !.AreaMin = lo, !.AreaMax = hi, !.LakeName = ln, !.CountryName = cn] :
        lo \in AreaArgs, hi \in AreaArgs, ln \in LakeNameArgs, cn \in CountryNameArgs}

NotTested == [numbers |-> None, text |-> None]

CallsInit ==
    /\ self = [ok |-> FALSE]
    /\ InFile = <<>>
    /\ run \in {[pc |-> "main", args |-> a] : a \in CallArgs}
    /\ Bounds = <<>>
    /\ Point = <<>>
    /\ answer = NotTested

\* __main__: ParserObj = LakesParser(...), InitInputError ends the program
Construct ==
    /\ run.pc = "main"
    /\ self' = LakesParserInit(run.args)
    /\ run' = [run EXCEPT !.pc = IF LakesParserInit(run.args).ok THEN "constructed"
                                 ELSE "exit 15"]
    /\ UNCHANGED <<InFile, Bounds, Point, answer>>

\* self.ExtractLakeHeader(line), as ParseLAKES calls it on a lake header
CallExtractLakeHeader(line) ==
    /\ run.pc = "constructed"
    /\ InFile' = <<line>>
    /\ run' = [pc |-> IF ExtractLakeHeader(self, line).ok THEN "extracted" ELSE "raised",
               args |-> run.args,
               err |-> ExtractLakeHeader(self, line).err,
               LakeAtributesList |-> ExtractLakeHeader(self, line).LakeAtributesList]
    /\ UNCHANGED <<self, Bounds, Point, answer>>

\* self.LakeMatchesAllNumbers()
CallLakeMatchesAllNumbers ==
    /\ run.pc = "extracted"
    /\ self.RunNumericTesters
    /\ answer.numbers = None
    /\ answer' = [answer EXCEPT
                     !.numbers = Some(LakeMatchesAllNumbers(self, run.LakeAtributesList))]
    /\ UNCHANGED <<self, InFile, run, Bounds, Point>>

\* self.LakeMatchesAllText()
CallLakeMatchesAllText ==
    /\ run.pc = "extracted"
    /\ self.RunStringTesters
    /\ answer.text = None
    /\ answer' = [answer EXCEPT
                     !.text = Some(LakeMatchesAllText(self, run.LakeAtributesList))]
    /\ UNCHANGED <<self, InFile, run, Bounds, Point>>

CallsNext ==
    \/ Construct
    \/ \E line \in HeaderLines : CallExtractLakeHeader(line)
    \/ CallLakeMatchesAllNumbers
    \/ CallLakeMatchesAllText

SpecCalls == CallsInit /\ [][CallsNext]_vars

\* the header line the testers were called on
TestedLine == InFile[1]

\* C11: a lake passes the area test iff area >= AreaMin when AreaMin is set
\* and area <= AreaMax when AreaMax is set, both limits included.
C11_AreaRangeInclusive ==
    answer.numbers # None =>
        (Val(answer.numbers) <=>
            /\ run.args.AreaMin # None =>
                  Val(NumberAt(TestedLine, 7)) >= Val(run.args.AreaMin)
            /\ run.args.AreaMax # None =>
                  Val(NumberAt(TestedLine, 7)) <= Val(run.args.AreaMax))

\* with AreaMin = AreaMax = 2 a lake of area 2 has passed the area test
C11_Witness ==
    /\ run.args.AreaMin = Some(2) /\ run.args.AreaMax = Some(2)
    /\ answer.numbers = Some(TRUE)
    /\ NumberAt(TestedLine, 7) = Some(2)

\* C12: the constructor fails with InitInputError exactly when AreaMin and
\* AreaMax are both set and AreaMax < AreaMin (AreaMax = AreaMin does not
\* fail), and then no input line is processed.
C12_AreaRangeRefused ==
    run.pc # "main" =>
        /\ run.pc = "exit 15" <=>
              /\ run.args.AreaMin # None /\ run.args.AreaMax # None
              /\ Val(run.args.AreaMax) < Val(run.args.AreaMin)
        /\ run.pc = "exit 15" => (~self.ok /\ self.err = "InitInputError" /\ InFile = <<>>)

\* the constructor has refused AreaMin = 3 with AreaMax = 1
C12_Witness ==
    /\ run.pc = "exit 15"
    /\ run.args.AreaMin = Some(3) /\ run.args.AreaMax = Some(1)
    /\ self.err = "InitInputError"

\* the text without the quotes and blanks around it
Unquoted(t) ==
    LET keep == {i \in 1..Len(t) : t[i] \notin {"\"", "'", " ", "\n"}}
    IN IF keep = {} THEN <<>>
       ELSE SubSeq(t, CHOOSE i \in keep : \A j \in keep : i <= j,
                      CHOOSE i \in keep : \A j \in keep : j <= i)

\* needle occurs in the field of the tested header at position pos, letter
\* case ignored on both sides
FieldHolds(pos, needle) ==
    \E i \in 0..(Len(Unquoted(Val(ElementAt(TestedLine, pos)))) - Len(needle)) :
        \A k \in 1..Len(needle) :
            LowerChar(Unquoted(Val(ElementAt(TestedLine, pos)))[i + k]) = LowerChar(needle[k])

\* C14: a lake passes the text tests iff each configured needle (LakeName,
\* CountryName) occurs, letter case ignored, as a contiguous part of the
\* name / country field with the quotes and blanks around it removed.
C14_SubstringIgnoringCase ==
    answer.text # None =>
        (Val(answer.text) <=>
            /\ run.args.LakeName # None => FieldHolds(1, Val(run.args.LakeName))
            /\ run.args.CountryName # None => FieldHolds(2, Val(run.args.CountryName)))

\* the needle "eri" was found in the name field "ERIE"
C14_Witness ==
    /\ answer.text = Some(TRUE)
    /\ run.args.LakeName = Some(<<"e", "r", "i">>)
    /\ ElementAt(TestedLine, 1) = Some(NameUpper)

\* C15: with LakeName (CountryName) configured as "!" a lake passes that
\* test iff its name (country) field is empty.
C15_SentinelMatchesEmptyField ==
    answer.text # None =>
        /\ (run.args.LakeName = Some(<<"!">>) /\ run.args.CountryName = None)
              => (Val(answer.text) <=> Unquoted(Val(ElementAt(TestedLine, 1))) = <<>>)
        /\ (run.args.CountryName = Some(<<"!">>) /\ run.args.LakeName = None)
              => (Val(answer.text) <=> Unquoted(Val(ElementAt(TestedLine, 2))) = <<>>)

\* C16: a lake header with too few elements, or with a needed number that
\* does not parse, never aborts the run: every line of the input is
\* handled, and the malformed header itself is not written.
C16_MalformedHeaderNeverAborts ==
    /\ run.pc = "run"
    /\ run.CountLines = Len(InFile)
    /\ \A i \in 1..Len(InFile) :
          (InspectedLine(i) /\ IsLakeHeader(InFile[i]) /\ ~ExtractLakeHeader(self, InFile[i]).ok)
              => ~Written(i)

(***************************************************************************)
(* The Rivers constructor, ParseUpstreamCells and the limits test, called  *)
(* on one comment line                                                     *)
(***************************************************************************)
\* "# @D1|2|121", "# @D1|12a" and "# @D1| 121 "
RivCommentTwoPipes == MkLine(MarkD, << <<"1">>, <<"2">>, <<"1", "2", "1">> >>)
RivCommentText == MkLine(MarkD, << <<"1">>, <<"1", "2", "a">> >>)
RivCommentSpaced == MkLine(MarkD, << <<"1">>, <<" ", "1", "2", "1", " ">> >>)

RivCallLines ==
    {RivComment121, RivComment3, RivCommentNoCount, RivCommentTwoPipes,
     RivCommentText, RivCommentSpaced, BlankLine, DataLine}

RivCallArgs ==
    {[RivDefaults EXCEPT !.ThresholdHigh = hi, !.ThresholdLow = lo, !.SimpleBounds = b] :
        hi \in {None, Some(1), Some(5), Some(121), Some(500)},
        lo \in {None, Some(MinUpstreamDefault), Some(5)},
        b \in {None, Some(BoxAroundOrigin)}}

NotParsed == [parsed |-> None, within |-> None]

RivCallsInit ==
    /\ self = [ok |-> FALSE]
    /\ InFile = <<>>
    /\ run \in {[pc |-> "main", args |-> a] : a \in RivCallArgs}
    /\ Bounds = <<>>
    /\ Point = <<>>
    /\ answer = NotParsed

\* __main__: RIVParser = SHEDSrivParser(...), InitInputError ends the program
RivConstruct ==
    /\ run.pc = "main"
    /\ self' = SHEDSrivParserInit(run.args)
    /\ run' = [run EXCEPT !.pc = IF SHEDSrivParserInit(run.args).ok THEN "constructed"
                                 ELSE "exit 15"]
    /\ UNCHANGED <<InFile, Bounds, Point, answer>>

\* UpstreamCells = self.ParseUpstreamCells(line)
CallParseUpstreamCells(line) ==
    /\ run.pc = "constructed"
    /\ InFile' = <<line>>
    /\ run' = [run EXCEPT !.pc = "parsed"]
    /\ answer' = [answer EXCEPT !.parsed = Some(ParseUpstreamCells(line))]
    /\ UNCHANGED <<self, Bounds, Point>>

\* self.UpstreamCellsWithinLimits(UpstreamCells), UpstreamCells = 0 after
\* an UpstreamCountError
CallUpstreamCellsWithinLimits ==
    /\ run.pc = "parsed"
    /\ answer.within = None
    /\ answer' = [answer EXCEPT !.within =
                     Some(UpstreamCellsWithinLimits(self,
                              IF Val(answer.parsed).ok THEN Val(answer.parsed).v ELSE 0))]
    /\ UNCHANGED <<self, InFile, run, Bounds, Point>>

RivCallsNext ==
    \/ RivConstruct
    \/ \E line \in RivCallLines : CallParseUpstreamCells(line)
    \/ CallUpstreamCellsWithinLimits

SpecRivCalls == RivCallsInit /\ [][RivCallsNext]_vars

\* C13: the Rivers constructor fails with a configuration error when
\* ThresholdHigh < ThresholdLow.
C13_ThresholdRangeRefused ==
    (/\ run.pc # "main"
     /\ run.args.ThresholdHigh # None /\ run.args.ThresholdLow # None
     /\ Val(run.args.ThresholdHigh) < Val(run.args.ThresholdLow))
        => run.pc = "exit 15"

\* C21: with both thresholds given and the bounds selector absent
\* (SimpleBounds = None) the Rivers constructor succeeds.
C21_BoundsAreOptional ==
    (/\ run.pc # "main"
     /\ run.args.ThresholdHigh # None /\ run.args.ThresholdLow # None
     /\ run.args.SimpleBounds = None)
        => run.pc # "exit 15"

\* the text behind the last "|" of a comment line, white space stripped
TextAfterLastPipe(line) == WsStrip(line.flds[Len(line.flds)])

\* C18: ParseUpstreamCells returns the integer written behind the LAST "|"
\* of the line when that text, trimmed, is all digits, and fails with
\* UpstreamCountError otherwise.
C18_CountAfterLastPipe ==
    run.pc = "parsed" =>
        LET parsed == Val(answer.parsed)
        IN  IF HasPipe(TestedLine) /\ AllDigits(TextAfterLastPipe(TestedLine))
            THEN parsed.ok /\ parsed.v = DigitsValue(TextAfterLastPipe(TestedLine))
            ELSE ~parsed.ok

(***************************************************************************)
(* Properties of the Rivers run                                            *)
(***************************************************************************)
\* the lines of the segment whose boundary line is line i: the lines behind
\* it up to the next boundary line
RivSegmentLines(i) ==
    {k \in (i + 1)..Len(InFile) : \A j \in (i + 1)..k : ~IsBoundaryLine(InFile[j])}

\* line i is a boundary line followed by a comment line
RivSegmentAt(i) ==
    /\ i < Len(InFile)
    /\ IsBoundaryLine(InFile[i])
    /\ CharAt(InFile[i + 1], 0) = "#"

\* C17: a segment whose comment line has no "|", or has something else than
\* digits behind it, is dropped from the output: none of its lines is
\* written.
C17_MalformedSegmentDropped ==
    \A i \in 1..Len(InFile) :
        (RivSegmentAt(i) /\ ~ParseUpstreamCells(InFile[i + 1]).ok)
            => \A k \in RivSegmentLines(i) : ~Written(k)

\* a line that holds a longitude and a latitude and nothing else
IsCoordinateLine(line) ==
    /\ line.mark = <<>>
    /\ Len(line.flds) = 2
    /\ ParseNumber(line.flds[1]).ok /\ ParseNumber(line.flds[2]).ok

\* line i begins a segment made of a boundary line, one attribute comment
\* with a count, and one or more coordinate lines, all of them read
WellFormedSegmentAt(i) ==
    /\ RivSegmentAt(i)
    /\ ParseUpstreamCells(InFile[i + 1]).ok
    /\ (i + 2) \in RivSegmentLines(i)
    /\ \A k \in RivSegmentLines(i) :
          /\ k <= run.CountLines
          /\ k > i + 1 => IsCoordinateLine(InFile[k])

\* the count of the segment at i is within the limits and the point of its
\* first coordinate line satisfies the bounds predicate
SegmentQualifies(i) ==
    /\ UpstreamCellsWithinLimits(self, ParseUpstreamCells(InFile[i + 1]).v)
    /\ CheckBounds(self, ParseNumber(InFile[i + 2].flds[2]).v,
                         ParseNumber(InFile[i + 2].flds[1]).v)

\* C19: a segment of a boundary line, one attribute comment and one or more
\* coordinate lines is written whole (boundary, comment, every coordinate
\* line) if and only if its count is within the limits and its first point
\* satisfies the bounds predicate; otherwise none of its lines is written.
C19_SegmentWrittenWholeOrNotAtAll ==
    \A i \in 1..Len(InFile) :
        WellFormedSegmentAt(i) =>
            IF SegmentQualifies(i)
            THEN /\ HeaderEmitted(i + 1)
                 /\ \A k \in RivSegmentLines(i) : Written(k)
            ELSE \A k \in RivSegmentLines(i) : ~Written(k)

\* "> -W<width>,<colour>" for the configured pen width and pen colour
ConfiguredPenHeader ==
    MkLine(<<">">>,
           << <<"-", "W">> \o Val(self.PenWidth) \o <<",">> \o Val(self.PenColour) >>)

\* C20: the boundary line written for an emitted segment is the bare ">"
\* when neither pen width nor pen colour is configured, and otherwise is
\* "> -W<width>,<colour>" built from the configured width and colour.
C20_BoundaryCarriesConfiguredPen ==
    \A k \in 1..Len(run.OutSrc) :
        run.OutSrc[k] = 0 =>
            IF self.PenWidth = None /\ self.PenColour = None
            THEN run.OutFile[k] = SimpleSegmentHeader
            ELSE (self.PenWidth # None /\ self.PenColour # None)
                    => run.OutFile[k] = ConfiguredPenHeader

\* the first character of the line is a decimal digit, or a sign followed
\* by a digit
StartsLikeCoordinates(line) ==
    \/ IsDigitChar(CharAt(line, 0))
    \/ CharAt(line, 0) \in {"-", "+"} /\ IsDigitChar(CharAt(line, 1))

\* line i lies in a segment that was accepted: an earlier line of the same
\* segment was written behind the boundary line the parser made for it
InAcceptedSegment(i) ==
    \E j \in 1..(i - 1) :
        /\ HeaderEmitted(j) \/ (j > 1 /\ HeaderEmitted(j - 1))
        /\ \A k \in j..i : ~IsBoundaryLine(InFile[k])

\* C27: every line of an accepted segment whose first character is a digit,
\* or a sign followed by a digit, is written to the output - lines with a
\* one-digit integer part included.
C27_CoordinateLinesKept ==
    \A i \in 1..Len(InFile) :
        (i <= run.CountLines /\ InAcceptedSegment(i) /\ StartsLikeCoordinates(InFile[i]))
            => Written(i)

(***************************************************************************)
(* Both runs under the three verbosity levels                              *)
(***************************************************************************)
\* lines that begin with neither ">", "#", a digit nor a sign: "xy" and "x5"
UnexpectedText == MkLine(<<"x", "y">>, <<>>)
UnexpectedDigit == MkLine(<<"x", "5">>, <<>>)

\* __main__: normal, -s and -v ("verbose supersedes silent")
Verbosity ==
    {[RunLoud |-> FALSE, RunSilent |-> FALSE],
     [RunLoud |-> FALSE, RunSilent |-> TRUE],
     [RunLoud |-> TRUE, RunSilent |-> FALSE]}

VerboseLakeArgs ==
    {[a EXCEPT !.RunLoud = v.RunLoud, !.RunSilent = v.RunSilent] :
        a \in {NoFilter, AllFilters}, v \in Verbosity}

VerboseRivArgs ==
    {[a EXCEPT !.RunLoud = v.RunLoud, !.RunSilent = v.RunSilent] :
        a \in {RivDefaults, [RivDefaults EXCEPT !.ThresholdLow = Some(5)]}, v \in Verbosity}

VerboseLakeLines ==
    {Boundary, LakeIn, LakeOut, PolygonComment, DataLine,
     UnexpectedText, UnexpectedDigit}

VerboseRivLines ==
    {Boundary, RivComment121, RivCommentNoCount, RivCommentText, DataLine, UnexpectedText}

VerboseInit ==
    /\ \/ \E args \in VerboseLakeArgs :
             /\ self = LakesParserInit(args)
             /\ run = ParseLAKESStart
             /\ answer = [variant |-> "Lakes"]
       \/ \E args \in VerboseRivArgs :
             /\ self = SHEDSrivParserInit(args)
             /\ run = ParseRIVStart
             /\ answer = [variant |-> "Rivers"]
    /\ InFile = <<>>
    /\ Bounds = <<>>
    /\ Point = <<>>

\* the loop of ParseLAKES takes the next line of the file
VerboseReadLakesLine(line) ==
    /\ answer.variant = "Lakes"
    /\ run.pc = "run"
    /\ Len(InFile) < MaxLines
    /\ InFile' = Append(InFile, line)
    /\ run' = ParseLAKESLine(self, run, line)
    /\ UNCHANGED <<self, Bounds, Point, answer>>

\* the loop of ParseRIV takes the next line of the file
VerboseReadRiversLine(line) ==
    /\ answer.variant = "Rivers"
    /\ run.pc = "run"
    /\ Len(InFile) < MaxLines
    /\ InFile' = Append(InFile, line)
    /\ run' = ParseRIVLine(self, run, line)
    /\ UNCHANGED <<self, Bounds, Point, answer>>

VerboseNext ==
    \/ \E line \in VerboseLakeLines : VerboseReadLakesLine(line)
    \/ \E line \in VerboseRivLines : VerboseReadRiversLine(line)

SpecVerbose == VerboseInit /\ [][VerboseNext]_vars

\* the same parser made silent, and its run on the lines read so far
Silenced == [self EXCEPT !.RunLoud = FALSE, !.RunSilent = TRUE]
SilentRun ==
    IF answer.variant = "Lakes" THEN ParseLAKES(Silenced, InFile)
    ELSE ParseRIV(Silenced, InFile)

\* C25: for the same lines and the same predicates, the lines written and
\* the statistics are the same whether the run is silent, normal or
\* verbose, in both variants: apart from what was printed, every run
\* equals the silent run.
C25_VerbosityChangesOnlyPrints ==
    [run EXCEPT !.Printed = 0] = [SilentRun EXCEPT !.Printed = 0]

\* a run that is not silent has printed a warning for a line it dropped
\* and has written other lines
C25_Witness ==
    /\ ~self.RunSilent
    /\ run.Printed > SilentRun.Printed
    /\ run.OutFile # <<>>
    /\ \E i \in 1..Len(InFile) : InFile[i] = UnexpectedText /\ ~Written(i)

\* a line that is not blank and begins with neither ">", "#", a digit nor a
\* sign followed by a digit
Unrecognized(line) ==
    /\ ~IsSpace(line)
    /\ CharAt(line, 0) \notin {">", "#"}
    /\ ~StartsLikeCoordinates(line)

\* C28: the Lakes run never writes an unrecognized line, whatever its
\* second character is.
C28_UnrecognizedLinesDropped ==
    answer.variant = "Lakes" =>
        \A i \in 1..Len(InFile) : Unrecognized(InFile[i]) => ~Written(i)

(***************************************************************************)
(* The Lakes program from __main__ to the loop, with the files it touches   *)
(***************************************************************************)
\* files: does InputFile exist, its extension, the lines of OutputFile
\* (None when there is no such file) and the -o flag
FileSetups ==
    [InputExists : BOOLEAN, Extension : {"gmt", "shp", "txt"},
     Output : {None, Some(<<DataLine>>)}, Overwrite : BOOLEAN]

\* the predicates given on the command line: consistent and inconsistent
\* area ranges, no bounds, valid bounds and bounds with S above N
SetupArgs ==
    {[NoFilter EXCEPT !.AreaMin = lo, !.AreaMax = hi, !.SimpleBounds = b] :
        lo \in {None, Some(5)}, hi \in {None, Some(1), Some(50)},
        b \in {None, Some(BoxAroundOrigin), Some(<<-10, 10, 5, -5>>)}}

SetupLines == {Boundary, LakeIn, DataLine}

\* "if os.path.exists(InputFile) ... else raise InitInputError" and
\* "if (os.path.exists(OutputFile)) and (Overwrite is not True): raise"
FilesAccepted(files) ==
    /\ files.InputExists
    /\ ~(files.Output # None /\ ~files.Overwrite)

\* CheckAndConvertInFile: a .gmt file is taken as it is; for a .shp file the
\* companion files may be missing (InitInputError) and ogr2ogr may fail
\* (ProcessingError); any other extension raises InitInputError
CheckAndConvertInFile(files) ==
    IF files.Extension = "shp" THEN {"ok", "InitInputError", "ProcessingError"}
    ELSE IF files.Extension = "gmt" THEN {"ok"}
    ELSE {"InitInputError"}

\* mutant: the output file is opened for writing before the input is checked
OutputOpenedFirst(files, outcome) == Some(<<>>)

\* the lines of OutputFile after ParseLAKES has called CheckAndConvertInFile
\* and, if that returned, open(self.OutputFile, 'w')
OutputAfterOpen(files, outcome) ==
    IF outcome = "ok" THEN Some(<<>>) ELSE files.Output

SetupInit ==
    /\ \E args \in SetupArgs, files \in FileSetups :
          /\ run = [pc |-> "main", args |-> args]
          /\ answer = [files |-> files, Output |-> files.Output, LinesRead |-> 0]
    /\ self = [ok |-> FALSE]
    /\ InFile = <<>>
    /\ Bounds = <<>>
    /\ Point = <<>>

\* __main__: ParserObj = LakesParser(...); InitInputError (and its subclass
\* BoundsInconsistentError) ends the program with exit code 15
SetupConstruct ==
    /\ run.pc = "main"
    /\ LET built == IF FilesAccepted(answer.files) THEN LakesParserInit(run.args)
                    ELSE [ok |-> FALSE, err |-> "InitInputError"]
       IN /\ self' = built
          /\ run' = [run EXCEPT !.pc = IF built.ok THEN "constructed" ELSE "exit 15"]
    /\ UNCHANGED <<InFile, Bounds, Point, answer>>

\* ParserObj.ParseLAKES() up to the loop: CheckAndConvertInFile, the two
\* open() calls and the locals
SetupStartParseLAKES ==
    /\ run.pc = "constructed"
    /\ \E outcome \in CheckAndConvertInFile(answer.files) :
          /\ run' = IF outcome = "ok" THEN ParseLAKESStart
                    ELSE [run EXCEPT !.pc = IF outcome = "InitInputError"
                                            THEN "exit 15" ELSE "exit 16"]
          /\ answer' = [answer EXCEPT !.Output = OutputAfterOpen(answer.files, outcome)]
    /\ UNCHANGED <<self, InFile, Bounds, Point>>

\* one iteration of the loop: a line is read and the output file grows by
\* what the iteration writes
SetupReadLine(line) ==
    /\ run.pc = "run"
    /\ Len(InFile) < MaxLines
    /\ InFile' = Append(InFile, line)
    /\ run' = ParseLAKESLine(self, run, line)
    /\ answer' = [answer EXCEPT !.Output = Some(ParseLAKESLine(self, run, line).OutFile),
                                !.LinesRead = @ + 1]
    /\ UNCHANGED <<self, Bounds, Point>>

SetupNext ==
    \/ SetupConstruct
    \/ SetupStartParseLAKES
    \/ \E line \in SetupLines : SetupReadLine(line)

SpecSetup == SetupInit /\ [][SetupNext]_vars

\* C26: whenever the program ends with a configuration error
\* (InitInputError, exit code 15) the output file is as it was before the
\* program started and no input line has been read.
C26_ConfigurationErrorsTouchNothing ==
    run.pc = "exit 15" =>
        /\ answer.Output = answer.files.Output
        /\ answer.LinesRead = 0

\* ParseLAKES itself has raised the error (unsupported extension) although
\* an output file with content exists and -o allows to overwrite it
C26_Witness ==
    /\ run.pc = "exit 15"
    /\ self.ok
    /\ answer.files.Extension = "txt"
    /\ answer.files.Output # None /\ answer.files.Overwrite

(***************************************************************************)
(* Further properties of the Rivers run                                    *)
(***************************************************************************)
\* the line the loop of ParseRIV reads in this step
LineRead == InFile'[Len(InFile')]

\* the loop of ParseRIV reads the line behind a boundary line, and
\* ParseUpstreamCells fails on it
ReadsUnparsableCount ==
    /\ run.pc = "run"
    /\ Len(InFile') = Len(InFile) + 1
    /\ run.SegmentHeaderFound
    /\ ~ParseUpstreamCells(LineRead).ok

\* C31: when ParseUpstreamCells fails for a segment, the segment is
\* evaluated with the count 0: it passes the limits test if and only if
\* MinUpstream <= 0 <= MaxUpstream, and the smallest and largest upstream
\* statistics are not updated by it.
C31_UnparsableCountIsZero ==
    [][ReadsUnparsableCount =>
          /\ run'.UpstreamCells = 0
          /\ run'.CountSegments = run.CountSegments + 1
          /\ run'.CountSegmentsCopied =
                IF self.MinUpstream <= 0 /\ 0 <= self.MaxUpstream
                THEN run.CountSegmentsCopied + 1 ELSE run.CountSegmentsCopied
          /\ (self.MinUpstream <= 0 /\ 0 <= self.MaxUpstream) \/ run'.SkipThisSegment
          /\ run'.SmallestUpstreamCells = run.SmallestUpstreamCells
          /\ run'.LargestUpstreamCells = run.LargestUpstreamCells]_vars

\* both outcomes have happened in one run: a segment without a count was
\* evaluated, and a count was recorded in the statistics before or after
C31_Witness ==
    /\ run.pc = "run"
    /\ run.LargestUpstreamCells > 0
    /\ \E i \in 1..Len(InFile) :
          /\ RivSegmentAt(i) /\ i + 1 <= run.CountLines
          /\ ~ParseUpstreamCells(InFile[i + 1]).ok
    /\ run.UpstreamCells = 0

\* the places of the output that hold input line i
PlacesOf(i) == {m \in 1..Len(run.OutSrc) : run.OutSrc[m] = i}

\* the segment whose boundary line is line i was accepted: one of its
\* coordinate lines has been written
SegmentEmitted(i) ==
    /\ IsBoundaryLine(InFile[i])
    /\ \E k \in RivSegmentLines(i) : InFile[k].mark = <<>> /\ ~IsSpace(InFile[k]) /\ Written(k)

\* the comment lines of the segment at i that the loop has read
CommentsOfSegment(i) ==
    {k \in RivSegmentLines(i) : k <= run.CountLines /\ CharAt(InFile[k], 0) = "#"}

\* C32: for every accepted segment, every "#" comment line of the segment
\* - the attribute comment and any comment before or after the first
\* coordinate line - is in the output exactly once, in input order.
C32_CommentsOfAcceptedSegmentKept ==
    \A i \in 1..Len(InFile) :
        SegmentEmitted(i) =>
            /\ \A k \in CommentsOfSegment(i) : Cardinality(PlacesOf(k)) = 1
            /\ \A k, l \in CommentsOfSegment(i) :
                  k < l => \A m \in PlacesOf(k), n \in PlacesOf(l) : m < n

\* the boundary line of the segment input line k lies in, 0 in front of
\* the first boundary line
SegmentOf(k) == Latest({i \in 1..k : IsBoundaryLine(InFile[i])})

\* C33: apart from the boundary lines the output of ParseRIV is a
\* subsequence of the input: the copied lines keep their order, each input
\* line is written at most once, and the lines written behind one boundary
\* line all come from the same segment - a comment saved for one segment
\* is never written as part of a later one.
C33_RiversOutputIsSubsequence ==
    /\ \A k \in 1..Len(InFile) : Cardinality(PlacesOf(k)) <= 1
    /\ \A m, n \in 1..Len(run.OutSrc) :
          (m < n /\ run.OutSrc[m] # 0 /\ run.OutSrc[n] # 0)
              => /\ run.OutSrc[m] < run.OutSrc[n]
                 /\ (\A x \in m..n : run.OutSrc[x] # 0)
                        => SegmentOf(run.OutSrc[m]) = SegmentOf(run.OutSrc[n])

(***************************************************************************)
(* The constructor, the header extraction and the three groups of tests    *)
(* under every combination of filters                                      *)
(***************************************************************************)
\* a "# @D" header whose elements without a filter hold their own position
FieldHeader(name, country, area, lon, lat) ==
    MkLine(MarkD,
           << <<"0">>, name, country, <<"3">>, <<"4">>, <<"5">>, <<"6">>, area,
              <<"8">>, <<"9">>, <<"1", "0">>, <<"1", "1">>, <<"1", "2">>,
              <<"1", "3">>, <<"1", "4">>, <<"1", "5">>, <<"1", "6">>,
              <<"1", "7">>, <<"1", "8">>, lon, lat >>)

FieldHeaderLines ==
    {FieldHeader(n, c, a, lon, lat) :
        n \in {NameErie, NameOther}, c \in {CountryCanada, CountryEmpty},
        a \in {<<"1">>, <<"2">>, <<"3">>},
        lon \in {<<"3">>, <<"1", "2">>}, lat \in {<<"-", "2">>, <<"7">>}}

FieldArgs ==
    {[NoFilter EXCEPT !.SimpleBounds = b, !.AreaMin = lo, !.AreaMax = hi,
                      !.LakeName = ln, !.CountryName = cn] :
        b \in {None, Some(<<-10, 10, -5, 5>>)},
        lo \in {None, Some(2)}, hi \in {None, Some(2)},
        ln \in {None, Some(<<"e", "r", "i">>)},
        cn \in {None, Some(<<"C", "a", "n">>)}}

FieldsNotTested == [numbers |-> None, text |-> None, bounds |-> None]

FieldsInit ==
    /\ self = [ok |-> FALSE]
    /\ InFile = <<>>
    /\ run \in {[pc |-> "main", args |-> a] : a \in FieldArgs}
    /\ Bounds = <<>>
    /\ Point = <<>>
    /\ answer = FieldsNotTested

\* self.LakeMatchesBounds()
CallLakeMatchesBounds ==
    /\ run.pc = "extracted"
    /\ self.TestBounds
    /\ answer.bounds = None
    /\ answer' = [answer EXCEPT
                     !.bounds = Some(LakeMatchesBounds(self, run.LakeAtributesList))]
    /\ UNCHANGED <<self, InFile, run, Bounds, Point>>

FieldsNext ==
    \/ Construct
    \/ \E line \in FieldHeaderLines : CallExtractLakeHeader(line)
    \/ CallLakeMatchesBounds
    \/ CallLakeMatchesAllNumbers
    \/ CallLakeMatchesAllText

SpecFields == FieldsInit /\ [][FieldsNext]_vars

\* the header's element at a position of HEADER_ORDER, as a number and as
\* the text between its quotes
FieldNumber(pos) == Val(NumberAt(TestedLine, pos))
FieldText(pos) == Strip(Val(ElementAt(TestedLine, pos)))

\* what the configured filters ask of the pour point (the box of FieldArgs
\* does not cross the dateline), of the area, and of the two texts
PourPointInside(lon, lat) ==
    LET B == Val(run.args.SimpleBounds)
    IN B[1] <= lon /\ lon <= B[2] /\ B[3] <= lat /\ lat <= B[4]

AreaInside(area) ==
    /\ run.args.AreaMin # None => area >= Val(run.args.AreaMin)
    /\ run.args.AreaMax # None => area <= Val(run.args.AreaMax)

TextsFound(namepos, countrypos) ==
    /\ run.args.LakeName # None => FieldHolds(namepos, Val(run.args.LakeName))
    /\ run.args.CountryName # None => FieldHolds(countrypos, Val(run.args.CountryName))

\* C34: under every combination of filters, after ExtractLakeHeader the
\* attribute behind Pour_long_SearchIndex is the header's element 19 and
\* the one after it element 20, the attribute behind Lake_area_SearchIndex
\* is element 7, behind Lake_name_SearchIndex element 1 and behind
\* Country_SearchIndex element 2; and the bounds test answers for the point
\* (element 19, element 20), the area tests for element 7, the text tests
\* for elements 1 and 2.
C34_ActiveFieldMapping ==
    run.pc = "extracted" =>
        /\ run.args.SimpleBounds # None =>
              /\ AttributeAt(run.LakeAtributesList, Val(self.Pour_long_SearchIndex))
                    = FieldNumber(19)
              /\ AttributeAt(run.LakeAtributesList, Val(self.Pour_long_SearchIndex) + 1)
                    = FieldNumber(20)
              /\ answer.bounds # None =>
                    Val(answer.bounds) = PourPointInside(FieldNumber(19), FieldNumber(20))
        /\ (run.args.AreaMin # None \/ run.args.AreaMax # None) =>
              /\ AttributeAt(run.LakeAtributesList, Val(self.Lake_area_SearchIndex))
                    = FieldNumber(7)
              /\ answer.numbers # None =>
                    Val(answer.numbers) = AreaInside(FieldNumber(7))
        /\ run.args.LakeName # None =>
              /\ AttributeAt(run.LakeAtributesList, Val(self.Lake_name_SearchIndex))
                    = FieldText(1)
        /\ run.args.CountryName # None =>
              /\ AttributeAt(run.LakeAtributesList, Val(self.Country_SearchIndex))
                    = FieldText(2)
        /\ answer.text # None => Val(answer.text) = TextsFound(1, 2)

\* all four kinds of filter configured, and the three groups of tests
\* disagreeing on one header
C34_Witness ==
    /\ run.pc = "extracted"
    /\ run.args.SimpleBounds # None /\ run.args.AreaMin # None
    /\ run.args.LakeName # None /\ run.args.CountryName # None
    /\ answer.bounds = Some(FALSE)
    /\ answer.numbers = Some(TRUE)
    /\ answer.text = Some(TRUE)

(***************************************************************************)
(* The loop of both runs and the end of the input                          *)
(***************************************************************************)
\* C35: the loop takes every line of the input once, in order, and comes to
\* the end of the input without an error, wherever the input ends: after
\* the lines read so far CountLines is their number and no exception has
\* ended the loop.
C35_SinglePassToEndOfInput ==
    /\ run.pc = "run"
    /\ run.CountLines = Len(InFile)

(***************************************************************************)
(* Further properties of the Lakes run                                     *)
(***************************************************************************)
\* C36: every island header in the output has the header of a lake in
\* front of it in the output; an island header that comes in the input
\* before any lake header is never written.
C36_IslandNeedsAcceptedParent ==
    \A m \in 1..Len(run.OutFile) :
        IsIslandHeader(run.OutFile[m])
            => \E n \in 1..(m - 1) : IsLakeHeader(run.OutFile[n])

(***************************************************************************)
(* The counters of the Rivers run                                          *)
(***************************************************************************)
\* the boundary lines ParseRIV has written
BoundariesWritten == {m \in 1..Len(run.OutSrc) : run.OutSrc[m] = 0}

\* C37: wherever the input ends, CountSegmentsCopied is the number of
\* segments whose boundary line was written to the output, also when the
\* bounds box rejects a segment whose count is within the limits.
C37_CopiedSegmentCount ==
    run.pc = "run" => run.CountSegmentsCopied = Cardinality(BoundariesWritten)

\* the relations between the counters of ParseLAKES
CountersOrdered ==
    /\ run.CountLakesCopied <= run.CountLakes
    /\ run.CountTotalIslandsCopied <= run.CountTotalIslands
    /\ run.CountIslandsThisLake <= run.CountTotalIslands
    /\ run.MostIslandsInLake <= run.CountTotalIslands
    /\ run.CountLakes + run.CountTotalIslands <= run.CountLines

\* the counters that run over the whole file never go down
TotalsNeverDecrease ==
    /\ run'.CountLines >= run.CountLines
    /\ run'.CountLakes >= run.CountLakes
    /\ run'.CountLakesCopied >= run.CountLakesCopied
    /\ run'.CountTotalIslands >= run.CountTotalIslands
    /\ run'.CountTotalIslandsCopied >= run.CountTotalIslandsCopied
    /\ run'.MostIslandsInLake >= run.MostIslandsInLake

\* C38 as stated: after every line all the counters, CountIslandsThisLake
\* among them, are at least what they were before the line, and the
\* relations between the counters hold.
C38_AllCountersNeverDecrease ==
    /\ [] CountersOrdered
    /\ [][TotalsNeverDecrease /\ run'.CountIslandsThisLake >= run.CountIslandsThisLake]_vars

\* C38: after every line the counters over the whole file are at least
\* what they were before the line, CountIslandsThisLake either grows or
\* goes back to 0 at a lake header, and the relations between the counters
\* hold.
C38_CounterInvariants ==
    /\ [] CountersOrdered
    /\ [][/\ TotalsNeverDecrease
          /\ \/ run'.CountIslandsThisLake >= run.CountIslandsThisLake
             \/ /\ run'.CountIslandsThisLake = 0
                /\ run'.CountLakes = run.CountLakes + 1]_vars

\* a lake header has put the island count of the lake back to 0
C38_Witness ==
    /\ run.pc = "run"
    /\ run.CountLakes > 0
    /\ run.CountTotalIslandsCopied > 0
    /\ run.MostIslandsInLake > 0
    /\ run.CountIslandsThisLake = 0

\* the boundary lines of the output
OutputBoundaries == {m \in 1..Len(run.OutFile) : IsBoundaryLine(run.OutFile[m])}

\* C39: in the output of ParseLAKES every boundary line is immediately
\* followed by a "# @D" or a "# @H" header line, and the number of
\* boundary lines is CountLakesCopied + CountTotalIslandsCopied.
C39_OutputStructure ==
    /\ \A m \in OutputBoundaries :
          /\ m + 1 <= Len(run.OutFile)
          /\ IsLakeHeader(run.OutFile[m + 1]) \/ IsIslandHeader(run.OutFile[m + 1])
    /\ Cardinality(OutputBoundaries) = run.CountLakesCopied + run.CountTotalIslandsCopied

\* a lake and an island were copied, each behind its boundary line, with
\* other lines between them
C39_Witness ==
    /\ run.pc = "run"
    /\ run.CountLakesCopied > 0
    /\ run.CountTotalIslandsCopied > 0
    /\ Len(run.OutFile) > 4
    /\ Cardinality(OutputBoundaries) = 2

(***************************************************************************)
(* The two bounds predicates side by side                                  *)
(***************************************************************************)
\* C40: for every point and every bounds list the two validators accept,
\* each with the dateline flag its validator appended, LakeMatchesBoundsSimple
\* for a lake with that pour point and PointWithinBoundry for that point
\* give the same answer.
C40_BoundsPredicatesAgree ==
    BothAnswered => (answer.lakes <=> answer.rivers)

\* both predicates accepted a point east of the dateline in a box that
\* crosses it
C40_Witness ==
    /\ BothAnswered
    /\ BoundsW > BoundsE
    /\ Point[1] = -175 /\ BoundsE = -170
    /\ answer.lakes /\ answer.rivers
    /\ LatitudeInside

====
